---- MODULE Spec2Model ----
(***************************************************************************)
(* Run lifecycle of the worker (processRunJob) over the relational store   *)
(* (runs, run_events, linked_sessions, usage_counters) and the BullMQ      *)
(* queue 'insight-runs'.  Every await of processRunJob is one step, so     *)
(* workers interleave at statement granularity; every store call that the  *)
(* code checks for an error may return one.                                *)
(***************************************************************************)
EXTENDS Integers, Sequences, FiniteSets, TLC

\* ------------------------------------------------------------------ bounds
MaxFaults == 2        \* store errors and collaborator exceptions while one run is queued
MaxRaceFaults == 0    \* the same, while two runs of one user are queued
MaxTokens == 1        \* largest tokenUsage an analysis reports
MaxPosts == 2         \* most posts handed to one analyzeInsights call
MaxBatchPosts == 6    \* most posts handed to one batchAnalyzePosts call whose batches are followed
MaxHits == 5          \* most keyword hits counted for one post
MaxList == 3          \* longest list handed to a deduplicator
MaxReported == 2      \* most insights, methodologies or templates of one expert
MaxLines == 3         \* most lines of a text handed to splitByTokens
MaxLimit == 5         \* greatest token limit
MaxLinks == 2         \* most candidate URLs of one enrichment
MaxStores == 3        \* most calls of storeArtifact

\* ------------------------------------------------------- program constants
Attempts == 3         \* runQueue defaultJobOptions.attempts
FollowUpAttempts == 1 \* requeueQueue defaultJobOptions set no attempts

\* Relevance scores are kept in tenths: 6 stands for 0.6.
Threshold == 6            \* `score > 0.6` in batchAnalyzePosts
ScoreOnParseFailure == 0  \* scorePostRelevance: `return 0` when no number was parsed
ScoreOnError == 5         \* scorePostRelevance: `return 0.5` in the catch
ScoreMax == 10            \* the upper end of the clamp, 1.0
BatchSize == 5            \* batchAnalyzePosts(relevantPosts, 5, ...) in analyzeWithAI

\* Confidences are kept in tenths as well.
DefaultConfidence == 5    \* parseAnalysisResponse: `insight.confidence || 0.5`
PerHit == 2               \* calculateConfidence: `keywordMatches * 0.2`
BaseCap == 8              \* calculateConfidence: `Math.min(..., 0.8)`
Bonus == 1                \* calculateConfidence: `confidence += 0.1`
FirstBonusAbove == 100    \* calculateConfidence: `totalEngagement > 100`
SecondBonusAbove == 500   \* calculateConfidence: `totalEngagement > 500`
ConfidenceFloor == 1      \* calculateConfidence: `Math.max(confidence, 0.1)`
ConfidenceCeiling == 10   \* calculateConfidence: `Math.min(..., 1.0)`

Workers == {"w1", "w2"}
Users == {"u1"}
Runs == {"r1", "r2"}
UserOf == [r \in Runs |-> "u1"]

Statuses == {"queued", "needs_login", "running", "failed", "completed"}
Terminal == {"completed", "failed"}
EventTypes == {"needs_login", "status_running", "status_failed", "completed"}

NoJob == [run |-> "none", attempts |-> 0, made |-> 0, state |-> "none"]

\* The analyses placed before the scrape whose posts they need.
StepsAnalysisFirst == <<"aggregate", "scrape", "perExpert", "bundle", "store">>

\* The pipeline of the try block between the 'running' write and the cookie
\* export, in program order.
Steps == <<"scrape", "aggregate", "perExpert", "bundle", "store">>

VARIABLES
    runs,        \* table runs: run id -> [status, needs_login_url, failure_reason]
    events,      \* table run_events: run id -> event type -> number of rows
    sessions,    \* table linked_sessions: user -> number of rows with is_active = true
    usage,       \* table usage_counters (current month): user -> row
    queue,       \* jobs of 'insight-runs' that are waiting or delayed
    wk,          \* per worker: position in processRunJob and its locals
    added,       \* per user: sum of the increments whose upsert was applied
    faults,      \* store errors and collaborator exceptions still to come
    capturedAny, \* some captureCookiesFromSession call returned cookies or threw
    expired,     \* run id -> the login session of its needs_login event has timed out
    an,          \* one analyzeInsights call of the AI path: its inputs, position and locals
    bt,          \* one batchAnalyzePosts call: its batches and the requests in flight
    call,        \* one call of a pure function of the analysis: arguments and result
    api          \* POST /runs: the counter row, the requests in flight, a token update

vars == <<runs, events, sessions, usage, queue, wk, added, faults, capturedAny, expired, an, bt, call, api>>

NoRow == [exists |-> FALSE, runs_used |-> 0, tokens_used |-> 0]

Idle == [pc |-> "idle", job |-> NoJob, run |-> "none", user |-> "none",
         sess |-> "none", pending |-> FALSE, cap |-> "none", saveCtx |-> "none",
         step |-> 0, tokens |-> 0, readRow |-> NoRow,
         err |-> "none", thrown |-> "none",
         \* what the invocation has done so far
         noSession |-> FALSE, hadSession |-> FALSE, savedCapture |-> FALSE,
         scraperMade |-> FALSE, closeCalls |-> 0, followUps |-> 0,
         provisioned |-> 0, threwAt |-> "none",
         failedUpdateCalls |-> 0, failedInsertCalls |-> 0, failedEvents |-> 0,
         wrote |-> <<>>, did |-> <<>>]

\* No analyzeInsights call is being followed.
AnIdle == [pc |-> "none"]

ApiIdle == [pc |-> "none"]

\* No batchAnalyzePosts call is being followed.
BtIdle == [pc |-> "none"]

\* No function call is being followed.
NoCall == [fn |-> "none"]

\* ------------------------------------------------------------ store helpers
ActiveRows(u) == sessions[u]

\* The outcomes of a call that returns or fails.  A failure (a store error,
\* a collaborator exception) is drawn while the behaviour has faults left.
Outcomes == IF faults > 0 THEN {TRUE, FALSE} ELSE {TRUE}
Fault(ok) == faults' = IF ok THEN faults ELSE faults - 1

\* The outcomes of a pipeline step: it returns, throws an Error, or throws a
\* value that carries no message.
StepOutcomes == {"ok"} \cup {x \in {"error", "no_message"} : faults > 0}

\* The outcomes of a call that returns cookies: none, some, or an exception.
CookieOutcomes == {"empty", "nonempty"} \cup {c \in {"threw"} : faults > 0}

\* captureCookiesFromSession on a login session that has timed out: the
\* connection is refused, or a fresh browser without cookies answers.
DeadSessionOutcomes == {"threw", "empty"}

AddEvent(r, t) == [events EXCEPT ![r][t] = @ + 1]

\* A test `!cookies` in place of `!cookies.length`: an array is never falsy.
CookiesEmptyAsTruthiness(c) == FALSE

\* `!cookies.length` at types.ts:161
CookiesEmpty(c) == c = "empty"

\* updateRunStatus called without its payload: `payload.reason ?? 'unknown'`.
FailureReasonDropped(e) == "unknown"

\* `error?.message ?? 'unknown_error'` at types.ts:234: a thrown value that
\* carries no message is recorded as 'unknown_error'.
FailureReason(e) == IF e = "no_message" THEN "unknown_error" ELSE e

\* captureCookiesFromSession called outside a try: its exception leaves
\* processRunJob.
OnCaptureThrowEscapes == "done"

\* Where control goes when captureCookiesFromSession throws: the catch at
\* 168 - 172, which re-enqueues.
OnCaptureThrow == "requeue"

\* The insert error of saveSession left unchecked, like that of its update.
OnCaptureSaveErrorIgnored == "init"

\* Where control goes when saveSession throws in the login branch (165): to
\* the same catch.
OnCaptureSaveError == "requeue"

\* scraper.close() placed after the try statement instead of in a finally.
AfterCatchThrowNoFinally == "done"

\* Where control goes when a statement of the catch block throws: the finally
\* block runs before the exception leaves processRunJob.
AfterCatchThrow == "finally"

\* ensureLoginSession followed directly by `return`: no follow-up job.
AfterLoginSessionNoRequeue == "done"

\* Where control goes when ensureLoginSession has returned (150 - 152): to
\* requeueQueue.add and then `return`.
AfterLoginSession == "requeue"

\* An exception raised before the try block leaves processRunJob at once.
Reject(w, e) ==
    wk' = [wk EXCEPT ![w] = [@ EXCEPT !.pc = "done", !.thrown = e]]

\* An exception raised inside the try block enters the catch block.
Catch(w, at, e) ==
    wk' = [wk EXCEPT ![w] = [@ EXCEPT !.pc = "failedUpdate", !.err = e, !.threwAt = at]]

\* --------------------------------------------------------------------- Init
\* createRun has inserted each run with the default status and added its job
\* through runQueue; a run row may since have been deleted by retention.
Init ==
    /\ \E rows \in {Runs, {"r1"}} :
          /\ runs = [r \in rows |-> [status |-> "queued", needs_login_url |-> FALSE,
                                     failure_reason |-> "null"]]
          /\ faults = IF rows = Runs THEN MaxRaceFaults ELSE MaxFaults
    /\ capturedAny = FALSE
    /\ events = [r \in Runs |-> [t \in EventTypes |-> 0]]
    /\ \E n \in {0, 1} : sessions = [u \in Users |-> n]
    /\ usage = [u \in Users |-> NoRow]
    /\ queue = {[run |-> "r1", attempts |-> Attempts, made |-> 0, state |-> "waiting"],
                [run |-> "r2", attempts |-> Attempts, made |-> 0, state |-> "waiting"]}
    /\ wk = [w \in Workers |-> Idle]
    /\ added = [u \in Users |-> 0]
    /\ expired = [r \in Runs |-> FALSE]
    /\ an = AnIdle
    /\ bt = BtIdle
    /\ call = NoCall
    /\ api = ApiIdle

\* -------------------------------------------------------------------- queue
\* A worker takes a waiting job, or a delayed one whose delay has elapsed,
\* and calls processRunJob(job.data, job).
Pick(w, j) ==
    /\ wk[w].pc = "idle"
    /\ j \in queue
    /\ queue' = queue \ {j}
    /\ wk' = [wk EXCEPT ![w] = [Idle EXCEPT !.pc = "fetchRun", !.job = j]]
    /\ UNCHANGED <<runs, events, sessions, usage, added, faults, capturedAny, expired, an, bt, call, api>>

\* A queue that retries every job that threw, whatever its attempts.
RetryAlways(j) == TRUE

\* BullMQ retries a job that threw while the attempts made, this one included,
\* are fewer than its `attempts` option.
Retry(j) == j.made + 1 < j.attempts

\* processRunJob has returned or thrown: the job completes, or is retried
\* with backoff while attempts remain, or is moved to the failed set.
Settle(w) ==
    /\ wk[w].pc = "done"
    /\ queue' = IF wk[w].thrown # "none" /\ Retry(wk[w].job)
                THEN queue \cup {[wk[w].job EXCEPT !.made = @ + 1, !.state = "delayed"]}
                ELSE queue
    /\ wk' = [wk EXCEPT ![w] = Idle]
    /\ UNCHANGED <<runs, events, sessions, usage, added, faults, capturedAny, expired, an, bt, call, api>>

\* ------------------------------------------------- processRunJob, 141 - 173
FetchRun(w) ==
    /\ wk[w].pc = "fetchRun"
    /\ \E ok \in Outcomes :
          /\ Fault(ok)
          /\ IF ~ok THEN Reject(w, "store")
             ELSE IF wk[w].job.run \notin DOMAIN runs
                  THEN wk' = [wk EXCEPT ![w] = [@ EXCEPT !.pc = "done"]]
                  ELSE wk' = [wk EXCEPT ![w] = [@ EXCEPT !.pc = "getActiveSession",
                                                          !.run = wk[w].job.run,
                                                          !.user = UserOf[wk[w].job.run]]]
    /\ UNCHANGED <<runs, events, sessions, usage, queue, added, capturedAny, expired, an, bt, call, api>>

GetActiveSession(w) ==
    /\ wk[w].pc = "getActiveSession"
    /\ \E ok \in Outcomes :
          /\ Fault(ok)
          /\ IF ~ok THEN Reject(w, "store")
             ELSE IF ActiveRows(wk[w].user) > 0
                  THEN wk' = [wk EXCEPT ![w] = [@ EXCEPT !.pc = "init", !.sess = "stored",
                                                          !.hadSession = TRUE,
                                                          !.scraperMade = TRUE]]
                  ELSE wk' = [wk EXCEPT ![w] = [@ EXCEPT !.pc = "getLatestLoginEvent",
                                                          !.noSession = TRUE]]
    /\ UNCHANGED <<runs, events, sessions, usage, queue, added, capturedAny, expired, an, bt, call, api>>

GetLatestLoginEvent(w) ==
    /\ wk[w].pc = "getLatestLoginEvent"
    /\ \E ok \in Outcomes :
          /\ Fault(ok)
          /\ IF ~ok THEN Reject(w, "store")
             ELSE IF events[wk[w].run]["needs_login"] = 0
                  THEN wk' = [wk EXCEPT ![w] = [@ EXCEPT !.pc = "createSession"]]
                  ELSE wk' = [wk EXCEPT ![w] = [@ EXCEPT !.pc = "capture", !.pending = TRUE]]
    /\ UNCHANGED <<runs, events, sessions, usage, queue, added, capturedAny, expired, an, bt, call, api>>

\* ensureLoginSession: createSession, then the runs update, then the event.
CreateSession(w) ==
    /\ wk[w].pc = "createSession"
    /\ \E ok \in Outcomes :
          /\ Fault(ok)
          /\ IF ~ok THEN Reject(w, "provision")
             ELSE wk' = [wk EXCEPT ![w] = [@ EXCEPT !.pc = "loginUpdate",
                                                     !.provisioned = @ + 1]]
    /\ UNCHANGED <<runs, events, sessions, usage, queue, added, capturedAny, expired, an, bt, call, api>>

LoginUpdate(w) ==
    /\ wk[w].pc = "loginUpdate"
    /\ \E ok \in Outcomes :
          /\ Fault(ok)
          /\ IF ~ok THEN Reject(w, "store") /\ UNCHANGED runs
             ELSE /\ runs' = [runs EXCEPT ![wk[w].run] =
                                 [@ EXCEPT !.status = "needs_login", !.needs_login_url = TRUE]]
                  /\ wk' = [wk EXCEPT ![w] = [@ EXCEPT !.pc = "loginInsert",
                                                       !.wrote = Append(@, "needs_login")]]
    /\ UNCHANGED <<events, sessions, usage, queue, added, capturedAny, expired, an, bt, call, api>>

LoginInsert(w) ==
    /\ wk[w].pc = "loginInsert"
    /\ \E ok \in Outcomes :
          /\ Fault(ok)
          /\ IF ~ok THEN Reject(w, "store") /\ UNCHANGED events
             ELSE /\ events' = AddEvent(wk[w].run, "needs_login")
                  /\ wk' = [wk EXCEPT ![w] = [@ EXCEPT !.pc = AfterLoginSession]]
    /\ UNCHANGED <<runs, sessions, usage, queue, added, capturedAny, expired, an, bt, call, api>>

\* requeueQueue.add('run', data, { delay }) followed by return, at 151, 162
\* and 170.  requeueQueue sets no attempts, so the follow-up is tried once.
Requeue(w) ==
    /\ wk[w].pc = "requeue"
    /\ queue' = queue \cup {[run |-> wk[w].job.run,
                             attempts |-> FollowUpAttempts, made |-> 0,
                             state |-> "delayed"]}
    /\ wk' = [wk EXCEPT ![w] = [@ EXCEPT !.pc = "done", !.followUps = @ + 1]]
    /\ UNCHANGED <<runs, events, sessions, usage, added, faults, capturedAny, expired, an, bt, call, api>>

\* captureCookiesFromSession on the pending login session.
CaptureCookies(w) ==
    /\ wk[w].pc = "capture"
    /\ \E c \in IF expired[wk[w].run] THEN DeadSessionOutcomes ELSE CookieOutcomes :
          /\ Fault(expired[wk[w].run] \/ c # "threw")
          /\ capturedAny' = (capturedAny \/ c # "empty")
          /\ wk' = [wk EXCEPT ![w] = [@ EXCEPT
                       !.cap = c,
                       !.saveCtx = "capture",
                       !.pc = IF c = "threw" THEN OnCaptureThrow
                              ELSE IF CookiesEmpty(c) THEN "requeue"
                              ELSE "saveDeactivate"]]
    /\ UNCHANGED <<runs, events, sessions, usage, queue, added, expired, an, bt, call, api>>

\* saveSession, first statement: the result of the update is not inspected.
SaveDeactivate(w) ==
    /\ wk[w].pc = "saveDeactivate"
    /\ \E ok \in Outcomes :
          /\ Fault(ok)
          /\ sessions' = IF ok THEN [sessions EXCEPT ![wk[w].user] = 0]
                         ELSE sessions
    /\ wk' = [wk EXCEPT ![w] = [@ EXCEPT !.pc = "saveInsert"]]
    /\ UNCHANGED <<runs, events, usage, queue, added, capturedAny, expired, an, bt, call, api>>

\* saveSession, second statement.  Called from the login branch (165) its
\* exception is caught at 168; called for the refresh (208), at 232.
SaveInsert(w) ==
    /\ wk[w].pc = "saveInsert"
    /\ \E ok \in Outcomes :
          /\ Fault(ok)
          /\ IF ~ok
             THEN /\ IF wk[w].saveCtx = "capture"
                     THEN wk' = [wk EXCEPT ![w] = [@ EXCEPT !.pc = OnCaptureSaveError]]
                     ELSE Catch(w, "saveSession", "store")
                  /\ UNCHANGED sessions
             ELSE /\ sessions' = [sessions EXCEPT ![wk[w].user] = @ + 1]
                  /\ IF wk[w].saveCtx = "capture"
                     THEN wk' = [wk EXCEPT ![w] = [@ EXCEPT !.pc = "init",
                                                            !.sess = "captured",
                                                            !.savedCapture = TRUE,
                                                            !.scraperMade = TRUE]]
                     ELSE wk' = [wk EXCEPT ![w] = [@ EXCEPT !.pc = "usageSelect"]]
    /\ UNCHANGED <<runs, events, usage, queue, added, capturedAny, expired, an, bt, call, api>>

\* ------------------------------------------------- processRunJob, 174 - 240
\* scraper.init() on the scraper constructed at 174.
ScraperInit(w) ==
    /\ wk[w].pc = "init"
    /\ \E ok \in Outcomes :
          /\ Fault(ok)
          /\ IF ~ok THEN Catch(w, "init", "init")
             ELSE wk' = [wk EXCEPT ![w] = [@ EXCEPT !.pc = "runningUpdate"]]
    /\ UNCHANGED <<runs, events, sessions, usage, queue, added, capturedAny, expired, an, bt, call, api>>

\* updateRunStatus(run.id, 'running'): the runs update.
RunningUpdate(w) ==
    /\ wk[w].pc = "runningUpdate"
    /\ \E ok \in Outcomes :
          /\ Fault(ok)
          /\ IF ~ok THEN Catch(w, "updateRunStatus", "store") /\ UNCHANGED runs
             ELSE /\ runs' = [runs EXCEPT ![wk[w].run].status = "running"]
                  /\ wk' = [wk EXCEPT ![w] = [@ EXCEPT !.pc = "runningInsert",
                                                       !.wrote = Append(@, "running")]]
    /\ UNCHANGED <<events, sessions, usage, queue, added, capturedAny, expired, an, bt, call, api>>

\* updateRunStatus(run.id, 'running'): the run_events insert.
RunningInsert(w) ==
    /\ wk[w].pc = "runningInsert"
    /\ \E ok \in Outcomes :
          /\ Fault(ok)
          /\ IF ~ok THEN Catch(w, "updateRunStatus", "store") /\ UNCHANGED events
             ELSE /\ events' = AddEvent(wk[w].run, "status_running")
                  /\ wk' = [wk EXCEPT ![w] = [@ EXCEPT !.pc = "pipeline", !.step = 1,
                                                       !.did = Append(@, "running")]]
    /\ UNCHANGED <<runs, sessions, usage, queue, added, capturedAny, expired, an, bt, call, api>>

\* One step of 182 - 205: scrapeProfiles, the aggregate analysis, the
\* per-expert analyses, buildKnowledgeBundle, the storeArtifact calls.  A
\* step returns, or throws an Error, or throws a value without a message.
PipelineStep(w) ==
    /\ wk[w].pc = "pipeline"
    /\ \E res \in StepOutcomes, t \in 0..MaxTokens :
          LET name == Steps[wk[w].step] IN
          /\ Fault(res = "ok")
          /\ IF res = "ok"
             THEN wk' = [wk EXCEPT ![w] = [@ EXCEPT
                            !.tokens = IF name = "aggregate" THEN t ELSE @,
                            !.step = @ + 1,
                            !.did = Append(@, name),
                            !.pc = IF wk[w].step = Len(Steps) THEN "exportCookies" ELSE @]]
             ELSE Catch(w, name, IF res = "error" THEN name ELSE "no_message")
    /\ UNCHANGED <<runs, events, sessions, usage, queue, added, capturedAny, expired, an, bt, call, api>>

\* scraper.exportCookies(); a non-empty result is saved as the session.
ExportCookies(w) ==
    /\ wk[w].pc = "exportCookies"
    /\ \E c \in CookieOutcomes :
          /\ Fault(c # "threw")
          /\ IF c = "threw" THEN Catch(w, "exportCookies", "cookies")
             ELSE wk' = [wk EXCEPT ![w] = [@ EXCEPT
                            !.saveCtx = IF c = "nonempty" THEN "refresh" ELSE @,
                            !.pc = IF c = "nonempty" THEN "saveDeactivate" ELSE "usageSelect"]]
    /\ UNCHANGED <<runs, events, sessions, usage, queue, added, capturedAny, expired, an, bt, call, api>>

\* incrementTokenUsage: the select of the month's row (none: zeros).
UsageSelect(w) ==
    /\ wk[w].pc = "usageSelect"
    /\ \E ok \in Outcomes :
          /\ Fault(ok)
          /\ IF ~ok THEN Catch(w, "incrementTokenUsage", "store")
             ELSE wk' = [wk EXCEPT ![w] = [@ EXCEPT !.pc = "usageUpsert",
                                                     !.readRow = usage[wk[w].user]]]
    /\ UNCHANGED <<runs, events, sessions, usage, queue, added, capturedAny, expired, an, bt, call, api>>

\* incrementTokenUsage: the upsert of the values computed from the select.
UsageUpsert(w) ==
    /\ wk[w].pc = "usageUpsert"
    /\ \E ok \in Outcomes :
          /\ Fault(ok)
          /\ IF ~ok THEN Catch(w, "incrementTokenUsage", "store") /\ UNCHANGED <<usage, added>>
             ELSE /\ usage' = [usage EXCEPT ![wk[w].user] =
                                  [exists |-> TRUE,
                                   runs_used |-> wk[w].readRow.runs_used,
                                   tokens_used |-> wk[w].readRow.tokens_used + wk[w].tokens]]
                  /\ added' = [added EXCEPT ![wk[w].user] = @ + wk[w].tokens]
                  /\ wk' = [wk EXCEPT ![w] = [@ EXCEPT !.pc = "completedUpdate",
                                                       !.did = Append(@, "usage")]]
    /\ UNCHANGED <<runs, events, sessions, queue, capturedAny, expired, an, bt, call, api>>

\* The runs update of 213 - 221; its result is not inspected.
CompletedUpdate(w) ==
    /\ wk[w].pc = "completedUpdate"
    /\ \E ok \in Outcomes :
          /\ Fault(ok)
          /\ IF ok
             THEN /\ runs' = [runs EXCEPT ![wk[w].run].status = "completed"]
                  /\ wk' = [wk EXCEPT ![w] = [@ EXCEPT !.pc = "completedInsert",
                                                       !.wrote = Append(@, "completed"),
                                                       !.did = Append(@, "completed")]]
             ELSE /\ wk' = [wk EXCEPT ![w] = [@ EXCEPT !.pc = "completedInsert"]]
                  /\ UNCHANGED runs
    /\ UNCHANGED <<events, sessions, usage, queue, added, capturedAny, expired, an, bt, call, api>>

\* The run_events insert of 222 - 230; its result is not inspected.
CompletedInsert(w) ==
    /\ wk[w].pc = "completedInsert"
    /\ \E ok \in Outcomes :
          /\ Fault(ok)
          /\ events' = IF ok THEN AddEvent(wk[w].run, "completed") ELSE events
    /\ wk' = [wk EXCEPT ![w] = [@ EXCEPT !.pc = "finally"]]
    /\ UNCHANGED <<runs, sessions, usage, queue, added, capturedAny, expired, an, bt, call, api>>

\* catch: updateRunStatus(run.id, 'failed', { reason }): the runs update.
FailedUpdate(w) ==
    /\ wk[w].pc = "failedUpdate"
    /\ \E ok \in Outcomes :
          /\ Fault(ok)
          /\ IF ~ok
             THEN /\ wk' = [wk EXCEPT ![w] = [@ EXCEPT !.pc = AfterCatchThrow,
                                                       !.thrown = "store",
                                                       !.failedUpdateCalls = @ + 1]]
                  /\ UNCHANGED runs
             ELSE /\ runs' = [runs EXCEPT ![wk[w].run] =
                                 [@ EXCEPT !.status = "failed",
                                           !.failure_reason = FailureReason(wk[w].err)]]
                  /\ wk' = [wk EXCEPT ![w] = [@ EXCEPT !.pc = "failedInsert",
                                                       !.failedUpdateCalls = @ + 1,
                                                       !.wrote = Append(@, "failed")]]
    /\ UNCHANGED <<events, sessions, usage, queue, added, capturedAny, expired, an, bt, call, api>>

\* catch: updateRunStatus(run.id, 'failed', ...): the run_events insert, and
\* then `throw error`.
FailedInsert(w) ==
    /\ wk[w].pc = "failedInsert"
    /\ \E ok \in Outcomes :
          /\ Fault(ok)
          /\ IF ~ok
             THEN /\ wk' = [wk EXCEPT ![w] = [@ EXCEPT !.pc = AfterCatchThrow,
                                                       !.thrown = "store",
                                                       !.failedInsertCalls = @ + 1]]
                  /\ UNCHANGED events
             ELSE /\ events' = AddEvent(wk[w].run, "status_failed")
                  /\ wk' = [wk EXCEPT ![w] = [@ EXCEPT !.pc = "finally",
                                                       !.thrown = wk[w].err,
                                                       !.failedInsertCalls = @ + 1,
                                                       !.failedEvents = @ + 1]]
    /\ UNCHANGED <<runs, sessions, usage, queue, added, capturedAny, expired, an, bt, call, api>>

\* finally: scraper.close().
Finally(w) ==
    /\ wk[w].pc = "finally"
    /\ wk' = [wk EXCEPT ![w] = [@ EXCEPT !.pc = "done", !.closeCalls = @ + 1]]
    /\ UNCHANGED <<runs, events, sessions, usage, queue, added, faults, capturedAny, expired, an, bt, call, api>>

\* --------------------------------------------------------------------- Next
Next ==
    \/ \E w \in Workers, j \in queue : Pick(w, j)
    \/ \E w \in Workers :
          \/ Settle(w)
          \/ FetchRun(w)
          \/ GetActiveSession(w)
          \/ GetLatestLoginEvent(w)
          \/ CreateSession(w)
          \/ LoginUpdate(w)
          \/ LoginInsert(w)
          \/ Requeue(w)
          \/ CaptureCookies(w)
          \/ SaveDeactivate(w)
          \/ SaveInsert(w)
          \/ ScraperInit(w)
          \/ RunningUpdate(w)
          \/ RunningInsert(w)
          \/ PipelineStep(w)
          \/ ExportCookies(w)
          \/ UsageSelect(w)
          \/ UsageUpsert(w)
          \/ CompletedUpdate(w)
          \/ CompletedInsert(w)
          \/ FailedUpdate(w)
          \/ FailedInsert(w)
          \/ Finally(w)

Spec == Init /\ [][Next]_vars

\* ------------------------------------------------- login session time-out
\* The Browserless session created by createSession ends after its `timeout`
\* (config.maxRunMinutes), or when its window is closed.
SessionTimeout(r) ==
    /\ r \in DOMAIN runs
    /\ events[r]["needs_login"] > 0
    /\ ~expired[r]
    /\ expired' = [expired EXCEPT ![r] = TRUE]
    /\ UNCHANGED <<runs, events, sessions, usage, queue, wk, added, faults, capturedAny, an, bt, call, api>>

\* One run of a user who has not logged in yet.
InitLogin ==
    /\ Init
    /\ DOMAIN runs = {"r1"}
    /\ \A u \in Users : sessions[u] = 0

NextLogin ==
    \/ Next
    \/ \E r \in Runs : SessionTimeout(r)

\* The workers keep taking jobs and every await completes; when a login
\* session times out is up to Browserless and the user.
LoginSpec == InitLogin /\ [][NextLogin]_vars /\ WF_vars(Next)

\* ------------------------------------------------------ two-pass analysis
\* InsightAnalyzer.analyzeWithAI and ClaudeService.batchAnalyzePosts.  The
\* posts of one batch are scored (and analysed) through Promise.all; since
\* neither scorePostRelevance nor analyzePost shares state between posts, the
\* posts are followed one after the other.

workerVars == <<runs, events, sessions, usage, queue, wk, added, faults, capturedAny, expired>>

\* A post: whether its content contains one of the focus topics, and whether
\* images were downloaded for it (imageContent.length > 0).
Posts == [kw : BOOLEAN, img : BOOLEAN]

\* `relevance` values a scoring response may carry, in tenths.
RelevanceValues == {-2, 3, 6, 7, 12}

\* Outcomes of the scoring request: a JSON answer with a number, an answer
\* without one, or an exception.
ScoreResponses ==
    {[kind |-> "number", v |-> x] : x \in RelevanceValues}
        \cup {[kind |-> "unparsable", v |-> 0], [kind |-> "threw", v |-> 0]}

\* Outcomes of an extraction request: an answer in the requested format, an
\* answer without JSON, an answer whose `insights` is not an array, an answer
\* with an insight item that has no string `insight`, a non-text block, an
\* exception whose message contains 'image', any other exception.
ExtractResponses ==
    {"insights", "noJson", "badShape", "badItem", "nonText", "imageError", "error"}

NoResponse == [kind |-> "none", v |-> 0]

Min(a, b) == IF a < b THEN a ELSE b

Max(a, b) == IF a > b THEN a ELSE b

\* `Math.max(0, Math.min(1, parsed.relevance))`
Clamp(x) == Max(0, Min(ScoreMax, x))

\* The neutral default replaced by the default of an unparsable answer.
ScoreOfErrorAsParseFailure(r) ==
    IF r.kind = "number" THEN Clamp(r.v) ELSE ScoreOnParseFailure

\* scorePostRelevance: the value returned for each outcome of the request.
ScoreOf(r) ==
    IF r.kind = "number" THEN Clamp(r.v)
    ELSE IF r.kind = "unparsable" THEN ScoreOnParseFailure
    ELSE ScoreOnError

\* The threshold taken inclusively.
RelevantInclusive(score) == score >= Threshold

\* `filter(({ score }) => score > 0.6)`
Relevant(score) == score > Threshold

\* A retry after every failed request.
RetryOnAnyError(hadImages, e) == TRUE

\* analyzePost, the catch at 125: the request is repeated without images when
\* images had been attached and the message of the error contains 'image'.
ShouldRetry(hadImages, e) == hadImages /\ e = "imageError"

\* Whether the outcome of an extraction request enters the catch block of
\* analyzePost (the rejection of the request, or the `throw` at 123).
Throws(resp) == resp \in {"imageError", "error", "nonText"}

\* parseAnalysisResponse: what analyzePost returns for a text answer.  Its
\* catch turns every exception (no JSON, `insights` without map) into the
\* empty result; an item without a string `insight` is mapped as it is.
ParseAnalysisResponse(resp) ==
    IF resp = "insights" THEN "insights"
    ELSE IF resp = "badItem" THEN "badItem"
    ELSE "empty"

\* filterPostsByTopics: the indices of the posts that are kept.
FilterPostsByTopics(posts, hasTopics) ==
    LET Idx == [k \in 1..Len(posts) |-> k]
        Keep(k) == ~hasTopics \/ posts[k].kw
    IN  SelectSeq(Idx, Keep)

\* The indices of `seq` whose score passes the threshold.
RelevantPosts(seq, scores) ==
    LET Keep(k) == Relevant(scores[k]) IN SelectSeq(seq, Keep)

EmptyResult == [insights |-> {}, templates |-> {}]

\* analyzeInsights is called with up to MaxPosts posts and a focus-topic list
\* that is empty or not.
InitAnalyzer ==
    /\ \E n \in 1..MaxPosts, hasTopics \in BOOLEAN :
          \E posts \in [1..n -> Posts] :
             an = [pc |-> "filter", posts |-> posts, hasTopics |-> hasTopics,
                   passed |-> <<>>, relevant |-> <<>>, i |-> 1,
                   scoreRes |-> [k \in 1..n |-> NoResponse],
                   scoreReqs |-> [k \in 1..n |-> 0],
                   scores |-> [k \in 1..n |-> 0],
                   reqs |-> [k \in 1..n |-> <<>>],
                   firstRes |-> [k \in 1..n |-> "none"],
                   result |-> [k \in 1..n |-> "none"],
                   out |-> EmptyResult]
    /\ runs = << >>
    /\ events = [r \in Runs |-> [t \in EventTypes |-> 0]]
    /\ sessions = [u \in Users |-> 0]
    /\ usage = [u \in Users |-> NoRow]
    /\ queue = {}
    /\ wk = [w \in Workers |-> Idle]
    /\ added = [u \in Users |-> 0]
    /\ faults = 0
    /\ capturedAny = FALSE
    /\ expired = [r \in Runs |-> FALSE]
    /\ bt = BtIdle
    /\ call = NoCall
    /\ api = ApiIdle

\* analyzeWithAI: the keyword filter, then the call of batchAnalyzePosts.
FilterPosts ==
    /\ an.pc = "filter"
    /\ an' = [an EXCEPT !.passed = FilterPostsByTopics(an.posts, an.hasTopics),
                         !.pc = "score", !.i = 1]
    /\ UNCHANGED <<workerVars, bt, call, api>>

\* Pass 1, one post: the scoring request and the score it yields.
ScorePost ==
    /\ an.pc = "score"
    /\ an.i <= Len(an.passed)
    /\ \E r \in ScoreResponses :
          LET k == an.passed[an.i] IN
          an' = [an EXCEPT !.scoreReqs[k] = @ + 1,
                           !.scoreRes[k] = r,
                           !.scores[k] = ScoreOf(r),
                           !.i = @ + 1]
    /\ UNCHANGED <<workerVars, bt, call, api>>

\* The filter by the threshold and the early return when nothing is left.
SelectRelevant ==
    /\ an.pc = "score"
    /\ an.i > Len(an.passed)
    /\ LET rel == RelevantPosts(an.passed, an.scores) IN
          an' = [an EXCEPT !.relevant = rel, !.i = 1,
                           !.pc = IF Len(rel) = 0 THEN "returned" ELSE "extract"]
    /\ UNCHANGED <<workerVars, bt, call, api>>

\* Pass 2, one post: the first request of analyzePost, with the images.
AnalyzePost ==
    /\ an.pc = "extract"
    /\ an.i <= Len(an.relevant)
    /\ \E resp \in ExtractResponses :
          LET k == an.relevant[an.i]
              sent == IF an.posts[k].img THEN "withImages" ELSE "textOnly"
          IN  an' = [an EXCEPT
                        !.reqs[k] = Append(@, sent),
                        !.firstRes[k] = resp,
                        !.result[k] = IF Throws(resp) THEN "empty"
                                      ELSE ParseAnalysisResponse(resp),
                        !.pc = IF Throws(resp) /\ ShouldRetry(an.posts[k].img, resp)
                               THEN "retry" ELSE "extract",
                        !.i = IF Throws(resp) /\ ShouldRetry(an.posts[k].img, resp)
                              THEN @ ELSE @ + 1]
    /\ UNCHANGED <<workerVars, bt, call, api>>

\* analyzePost, 131 - 147: the request repeated with the text alone.  A text
\* answer is parsed; anything else leaves the empty result.
RetryWithoutImages ==
    /\ an.pc = "retry"
    /\ \E resp \in ExtractResponses :
          LET k == an.relevant[an.i] IN
          an' = [an EXCEPT
                    !.reqs[k] = Append(@, "textOnly"),
                    !.result[k] = IF Throws(resp) THEN "empty"
                                  ELSE ParseAnalysisResponse(resp),
                    !.pc = "extract",
                    !.i = @ + 1]
    /\ UNCHANGED <<workerVars, bt, call, api>>

\* The return of batchAnalyzePosts: deduplicateInsights reads
\* `insight.insight.slice`, which throws a TypeError on an item without a
\* string `insight`.
Deduplicate ==
    /\ an.pc = "extract"
    /\ an.i > Len(an.relevant)
    /\ LET good == {k \in DOMAIN an.posts : an.result[k] = "insights"}
          bad  == {k \in DOMAIN an.posts : an.result[k] = "badItem"}
      IN  an' = IF bad # {}
                THEN [an EXCEPT !.pc = "threw"]
                ELSE [an EXCEPT !.pc = "returned",
                                !.out = [insights |-> good, templates |-> good]]
    /\ UNCHANGED <<workerVars, bt, call, api>>

NextAnalyzer ==
    \/ FilterPosts
    \/ ScorePost
    \/ SelectRelevant
    \/ AnalyzePost
    \/ RetryWithoutImages
    \/ Deduplicate

AnalyzerSpec == InitAnalyzer /\ [][NextAnalyzer]_vars

\* ------------------------------------------------- batches of LLM requests
\* batchAnalyzePosts, seen as a scheduler: `batch.map(...)` starts the request
\* of every post of the batch, `await Promise.all` waits for all of them.

\* The worker and its store, untouched by the analysis.
StoreAtRest ==
    /\ runs = << >>
    /\ events = [r \in Runs |-> [t \in EventTypes |-> 0]]
    /\ sessions = [u \in Users |-> 0]
    /\ usage = [u \in Users |-> NoRow]
    /\ queue = {}
    /\ wk = [w \in Workers |-> Idle]
    /\ added = [u \in Users |-> 0]
    /\ faults = 0
    /\ capturedAny = FALSE
    /\ expired = [r \in Runs |-> FALSE]

\* A loop that hands every remaining post to map at once.
BatchUnbounded(list, i) == {list[x] : x \in {y \in DOMAIN list : y > i}}

\* `list.slice(i, i + batchSize)`: the posts of the batch that starts at
\* offset i.
Batch(list, i) == {list[x] : x \in {y \in DOMAIN list : y > i /\ y <= i + BatchSize}}

\* `i + batchSize < list.length`: another batch follows.
MoreBatches(list, i) == i + BatchSize < Len(list)

InitBatches ==
    /\ \E n \in 1..MaxBatchPosts :
          bt = [pc |-> "scoreLaunch", posts |-> [k \in 1..n |-> k], i |-> 0,
                flight |-> {}, scored |-> {}, liked |-> {}, relevant |-> <<>>,
                retried |-> {}, analysed |-> {}]
    /\ an = AnIdle
    /\ call = NoCall
    /\ api = ApiIdle
    /\ StoreAtRest

\* Pass 1: `batch.map(async post => ...)` issues the scoring request of every
\* post of the batch.
LaunchScores ==
    /\ bt.pc = "scoreLaunch"
    /\ bt' = [bt EXCEPT !.flight = Batch(bt.posts, bt.i), !.pc = "scoreWait"]
    /\ UNCHANGED <<workerVars, an, call, api>>

\* One scoring request settles; its score is above the threshold or not.
ScoreCompletes(k) ==
    /\ bt.pc = "scoreWait"
    /\ k \in bt.flight
    /\ \E above \in BOOLEAN :
          bt' = [bt EXCEPT !.flight = @ \ {k},
                           !.scored = @ \cup {k},
                           !.liked = IF above THEN @ \cup {k} ELSE @]
    /\ UNCHANGED <<workerVars, an, call, api>>

\* `await Promise.all(scorePromises)` resumes; after the delay the next batch
\* starts, or the posts are filtered by their score.
ScoresAwaited ==
    /\ bt.pc = "scoreWait"
    /\ bt.flight = {}
    /\ IF MoreBatches(bt.posts, bt.i)
       THEN bt' = [bt EXCEPT !.i = @ + BatchSize, !.pc = "scoreLaunch"]
       ELSE LET Keep(k) == k \in bt.liked
                rel == SelectSeq(bt.posts, Keep)
            IN  bt' = [bt EXCEPT !.relevant = rel, !.i = 0,
                                 !.pc = IF Len(rel) = 0 THEN "returned"
                                        ELSE "extractLaunch"]
    /\ UNCHANGED <<workerVars, an, call, api>>

\* Pass 2: `batch.map(post => this.analyzePost(...))` issues the first
\* extraction request of every post of the batch.
LaunchExtracts ==
    /\ bt.pc = "extractLaunch"
    /\ bt' = [bt EXCEPT !.flight = Batch(bt.relevant, bt.i), !.pc = "extractWait"]
    /\ UNCHANGED <<workerVars, an, call, api>>

\* One extraction request settles: analyzePost returns, or (once per post)
\* issues its second request without images.
ExtractCompletes(k) ==
    /\ bt.pc = "extractWait"
    /\ k \in bt.flight
    /\ \E again \in {FALSE} \cup {r \in {TRUE} : k \notin bt.retried} :
          bt' = IF again
                THEN [bt EXCEPT !.retried = @ \cup {k}]
                ELSE [bt EXCEPT !.flight = @ \ {k}, !.analysed = @ \cup {k}]
    /\ UNCHANGED <<workerVars, an, call, api>>

\* `await Promise.all(batchPromises)` resumes; after the delay the next batch
\* starts, or batchAnalyzePosts returns.
ExtractsAwaited ==
    /\ bt.pc = "extractWait"
    /\ bt.flight = {}
    /\ bt' = IF MoreBatches(bt.relevant, bt.i)
             THEN [bt EXCEPT !.i = @ + BatchSize, !.pc = "extractLaunch"]
             ELSE [bt EXCEPT !.pc = "returned"]
    /\ UNCHANGED <<workerVars, an, call, api>>

NextBatches ==
    \/ LaunchScores
    \/ \E k \in 1..MaxBatchPosts : ScoreCompletes(k)
    \/ ScoresAwaited
    \/ LaunchExtracts
    \/ \E k \in 1..MaxBatchPosts : ExtractCompletes(k)
    \/ ExtractsAwaited

BatchSpec == InitBatches /\ [][NextBatches]_vars

\* ------------------------------------------------------------ confidences
\* The `confidence` an extraction answer may carry for an insight, in tenths;
\* the field may also be missing.
ConfidenceValues == {-3, 0, 4, 10, 17}

ResponseConfidences ==
    {[present |-> TRUE, v |-> x] : x \in ConfidenceValues}
        \cup {[present |-> FALSE, v |-> 0]}

\* parseAnalysisResponse, `confidence: insight.confidence || 0.5`: a missing
\* or zero value is falsy and gives the default; any other value is kept.
InsightConfidence(c) == IF c.present /\ c.v # 0 THEN c.v ELSE DefaultConfidence

\* Counters of likes, comments and shares.
EngagementValues == {0, 40, 101, 400}

\* calculateConfidence with `return confidence` as its last statement.
CalculateConfidenceUnclamped(hits, likes, comments, shares) ==
    LET total == likes + comments + shares IN
    Min(hits * PerHit, BaseCap)
        + (IF total > FirstBonusAbove THEN Bonus ELSE 0)
        + (IF total > SecondBonusAbove THEN Bonus ELSE 0)

\* calculateConfidence of the keyword path.
CalculateConfidence(hits, likes, comments, shares) ==
    LET total == likes + comments + shares
        base == Min(hits * PerHit, BaseCap)
        one == IF total > FirstBonusAbove THEN base + Bonus ELSE base
        two == IF total > SecondBonusAbove THEN one + Bonus ELSE one
    IN  Min(Max(two, ConfidenceFloor), ConfidenceCeiling)

InitConfidence ==
    /\ \/ \E c \in ResponseConfidences :
             call = [fn |-> "parseAnalysisResponse", confidence |-> c,
                     done |-> FALSE, result |-> 0]
       \/ \E h \in 0..MaxHits, l \in EngagementValues, c \in EngagementValues,
               sh \in EngagementValues :
             call = [fn |-> "calculateConfidence", hits |-> h, likes |-> l,
                     comments |-> c, shares |-> sh, done |-> FALSE, result |-> 0]
    /\ an = AnIdle
    /\ bt = BtIdle
    /\ StoreAtRest
    /\ api = ApiIdle

\* parseAnalysisResponse maps one insight of the answer.
MapInsight ==
    /\ call.fn = "parseAnalysisResponse" /\ ~call.done
    /\ call' = [call EXCEPT !.done = TRUE, !.result = InsightConfidence(call.confidence)]
    /\ UNCHANGED <<workerVars, an, bt, api>>

\* generateSimpleInsight computes the confidence of a keyword insight.
ComputeConfidence ==
    /\ call.fn = "calculateConfidence" /\ ~call.done
    /\ call' = [call EXCEPT !.done = TRUE,
                             !.result = CalculateConfidence(call.hits, call.likes,
                                                            call.comments, call.shares)]
    /\ UNCHANGED <<workerVars, an, bt, api>>

NextConfidence == MapInsight \/ ComputeConfidence

ConfidenceSpec == InitConfidence /\ [][NextConfidence]_vars

\* ---------------------------------------------------------- deduplicators
\* `list.filter(x => { if (seen.has(key(x))) return false; seen.add(key(x));
\* return true })`: the elements whose key has not been seen, in order;
\* keys[i] is the key of list[i].
KeepFirst(list, keys) ==
    LET walk[i \in 0..Len(list)] ==
            IF i = 0 THEN [seen |-> {}, out |-> <<>>]
            ELSE LET k == keys[i] IN
                 IF k \in walk[i - 1].seen THEN walk[i - 1]
                 ELSE [seen |-> walk[i - 1].seen \cup {k},
                       out |-> Append(walk[i - 1].out, list[i])]
    IN  walk[Len(list)].out

\* An insight, as far as its deduplication goes: its category, the first 50
\* characters of its text and the rest of the text.
DedupInsights == [category : {"TACTICS", "STRATEGY"}, head : {"h1", "h2"}, rest : {"r1", "r2"}]

\* `${insight.category}-${insight.insight.slice(0, 50)}`
InsightKey(x) == <<x.category, x.head>>

DeduplicateInsights(list) == KeepFirst(list, [i \in DOMAIN list |-> InsightKey(list[i])])

\* A string: its text without the surrounding white space (possibly empty)
\* and whether white space surrounds it.
Strings == [core : {"", "a", "b"}, padded : BOOLEAN]

\* The strings extractSimpleTemplates and extractSimpleActionableItems yield:
\* matches of patterns with a literal part, trimmed.
TrimmedStrings == {x \in Strings : x.core # "" /\ ~x.padded}

Trim(x) == [x EXCEPT !.padded = FALSE]

\* `item && item.trim().length > 0`
NonBlank(x) == x.core # ""

\* The strings trimmed after the deduplication.
DeduplicateStringsThenTrim(list) ==
    LET kept == KeepFirst(SelectSeq(list, NonBlank), SelectSeq(list, NonBlank))
    IN  [i \in DOMAIN kept |-> Trim(kept[i])]

\* ClaudeService.deduplicateStrings: `[...new Set(items.filter(...))]`
DeduplicateStrings(list) == KeepFirst(SelectSeq(list, NonBlank), SelectSeq(list, NonBlank))

\* InsightAnalyzer.deduplicateStrings: `[...new Set(items)]`
DeduplicateStringsPlain(list) == KeepFirst(list, list)

\* A methodology: its name and its description.
DedupMethodologies == [name : {"SMYKM", "smykm", "BANT"}, description : {"d1", "d2"}]

MethodologyName(x) == x.name

DeduplicateMethodologies(list) ==
    KeepFirst(list, [i \in DOMAIN list |-> MethodologyName(list[i])])

\* The lists of up to MaxList elements of S.
Lists(S) == UNION {[1..n -> S] : n \in 0..MaxList}

\* The deduplicator named fn applied to a list.
ApplyDeduplicator(fn, list) ==
    CASE fn = "deduplicateInsights" -> DeduplicateInsights(list)
      [] fn = "deduplicateStrings" -> DeduplicateStrings(list)
      [] fn = "deduplicateStringsPlain" -> DeduplicateStringsPlain(list)
      [] fn = "deduplicateMethodologies" -> DeduplicateMethodologies(list)

InitDedup ==
    /\ \/ \E l \in Lists(DedupInsights) :
             call = [fn |-> "deduplicateInsights", arg |-> l, applied |-> 0,
                     once |-> <<>>, twice |-> <<>>]
       \/ \E l \in Lists(Strings) :
             call = [fn |-> "deduplicateStrings", arg |-> l, applied |-> 0,
                     once |-> <<>>, twice |-> <<>>]
       \/ \E l \in Lists(TrimmedStrings) :
             call = [fn |-> "deduplicateStringsPlain", arg |-> l, applied |-> 0,
                     once |-> <<>>, twice |-> <<>>]
       \/ \E l \in Lists(DedupMethodologies) :
             call = [fn |-> "deduplicateMethodologies", arg |-> l, applied |-> 0,
                     once |-> <<>>, twice |-> <<>>]
    /\ an = AnIdle
    /\ bt = BtIdle
    /\ StoreAtRest
    /\ api = ApiIdle

\* The deduplicator is applied to the collected list.
DedupOnce ==
    /\ call.fn # "none" /\ call.applied = 0
    /\ call' = [call EXCEPT !.applied = 1, !.once = ApplyDeduplicator(call.fn, call.arg)]
    /\ UNCHANGED <<workerVars, an, bt, api>>

\* The deduplicator is applied to its own output.
DedupAgain ==
    /\ call.fn # "none" /\ call.applied = 1
    /\ call' = [call EXCEPT !.applied = 2, !.twice = ApplyDeduplicator(call.fn, call.once)]
    /\ UNCHANGED <<workerVars, an, bt, api>>

NextDedup == DedupOnce \/ DedupAgain

DedupSpec == InitDedup /\ [][NextDedup]_vars

\* ------------------------------------------------------------ aggregation
\* AggregationFormatter.aggregateInsights over the analyses of the experts.
Usernames == {"A", "B"}

Weights == {5, 10}

Topics == {"sales"}

\* A text is its lower-cased, trimmed form, whether it has upper-case letters
\* and whether white space surrounds it.
ToLowerCase(x) == [x EXCEPT !.upper = FALSE]

\* `insight.insight.toLowerCase().trim()`
Normalized(x) == Trim(ToLowerCase(x.insight))

AggInsights ==
    { [insight |-> [core |-> "ask first", upper |-> FALSE, padded |-> FALSE],
       category |-> "TACTICS", confidence |-> 5],
      [insight |-> [core |-> "ask first", upper |-> TRUE, padded |-> TRUE],
       category |-> "STRATEGY", confidence |-> 9],
      [insight |-> [core |-> "follow up", upper |-> FALSE, padded |-> FALSE],
       category |-> "TACTICS", confidence |-> 9] }

AggMethodologies ==
    { [name |-> [core |-> "smykm", upper |-> TRUE], description |-> "d1", application |-> "a1"],
      [name |-> [core |-> "smykm", upper |-> FALSE], description |-> "d2", application |-> "none"],
      [name |-> [core |-> "bant", upper |-> FALSE], description |-> "d1", application |-> "none"] }

AggTemplates == {x \in Strings : NonBlank(x) /\ (x.padded => x.core = "a")}

\* The lists of up to MaxReported elements of S.
Reported(S) == UNION {[1..n -> S] : n \in 0..MaxReported}

\* The analyses of one expert. Each of the three combiners reads one field of
\* the analysis, so the analyses are drawn with one field filled at a time.
ExpertAnalyses(field) ==
    [username : Usernames, weight : Weights, posts : {2},
     insights : IF field = "insights" THEN Reported(AggInsights) ELSE {<<>>},
     methodologies : IF field = "methodologies" THEN Reported(AggMethodologies) ELSE {<<>>},
     templates : IF field = "templates" THEN Reported(AggTemplates) ELSE {<<>>}]

RECURSIVE Concat(_)
Concat(seqs) == IF seqs = <<>> THEN <<>> ELSE Head(seqs) \o Concat(Tail(seqs))

RECURSIVE Sum(_)
Sum(seq) == IF seq = <<>> THEN 0 ELSE Head(seq) + Sum(Tail(seq))

\* The insights in the order of the two loops: expert by expert, each
\* expert's list in order.
AllInsights(experts) == Concat([e \in DOMAIN experts |-> experts[e].insights])

\* The methodologies in the order of the two loops, each with its expert.
AllMethodologies(experts) ==
    Concat([e \in DOMAIN experts |->
              [i \in DOMAIN experts[e].methodologies |->
                  [by |-> experts[e].username, item |-> experts[e].methodologies[i]]]])

AllTemplates(experts) ==
    Concat([e \in DOMAIN experts |->
              [i \in DOMAIN experts[e].templates |->
                  [by |-> experts[e].username, item |-> experts[e].templates[i]]]])

\* `list.sort((a, b) => val(b) - val(a))`: the stable sort, greatest first;
\* vals[i] is the value of list[i].
SortDescending(list, vals) ==
    LET Before(i, j) == vals[i] > vals[j] \/ (vals[i] = vals[j] /\ i < j)
        rank(i) == 1 + Cardinality({j \in DOMAIN list : Before(j, i)})
    IN  [r \in DOMAIN list |-> list[CHOOSE i \in DOMAIN list : rank(i) = r]]

\* The experts reordered by their weight.
HeaviestFirst(experts) ==
    SortDescending(experts, [e \in DOMAIN experts |-> experts[e].weight])

\* The insights left as the loops collected them.
Unsorted(list) == list

\* `allInsights.sort((a, b) => b.confidence - a.confidence)`
SortByConfidence(list) ==
    SortDescending(list, [i \in DOMAIN list |-> list[i].confidence])

\* The set of an earlier call used again.
SeenCarriedOver(left) == left

\* `const seenInsights = new Set<string>()`: every call starts with an empty
\* set, whatever the set of an earlier call was left holding.
SeenAtStart(left) == {}

\* The key keeps the category apart.
TextAndCategory(x) == <<Normalized(x), x.category>>

\* The key of an insight in seenInsights.
SeenKey(x) == Normalized(x)

\* The two loops of deduplicateInsights: the insights whose normalized text
\* was not seen, in order, and the set as the loops leave it.
CollectInsights(experts, left) ==
    LET all == AllInsights(experts)
        walk[i \in 0..Len(all)] ==
            IF i = 0 THEN [seen |-> SeenAtStart(left), out |-> <<>>]
            ELSE LET k == SeenKey(all[i]) IN
                 IF k \in walk[i - 1].seen THEN walk[i - 1]
                 ELSE [seen |-> walk[i - 1].seen \cup {k},
                       out |-> Append(walk[i - 1].out, all[i])]
    IN  walk[Len(all)]

\* The experts taken by weight before the loops.
DeduplicateHeaviestFirst(experts, left) ==
    SortByConfidence(CollectInsights(HeaviestFirst(experts), left).out)

\* AggregationFormatter.deduplicateInsights
AggregationDeduplicateInsights(experts, left) ==
    SortByConfidence(CollectInsights(experts, left).out)

\* The name as reported.
ExactName(x) == x.name

\* `methodology.name.toLowerCase()`
MethodologyKey(x) == ToLowerCase(x.name)

\* The position of the entry of key k in a Map kept in insertion order.
Position(entries, k) == CHOOSE i \in DOMAIN entries : entries[i].key = k

\* `if (!sources.includes(username)) sources.push(username)`
AddSource(sources, username) ==
    IF \E i \in DOMAIN sources : sources[i] = username THEN sources
    ELSE Append(sources, username)

\* combineMethodologies: the values of the Map, in insertion order.
CombineMethodologies(experts) ==
    LET all == AllMethodologies(experts)
        walk[i \in 0..Len(all)] ==
            IF i = 0 THEN <<>>
            ELSE LET k == MethodologyKey(all[i].item)
                     map == walk[i - 1]
                 IN  IF \E e \in DOMAIN map : map[e].key = k
                     THEN [map EXCEPT ![Position(map, k)].sources = AddSource(@, all[i].by)]
                     ELSE Append(map, [key |-> k,
                                       name |-> all[i].item.name,
                                       description |-> all[i].item.description,
                                       application |-> all[i].item.application,
                                       sources |-> <<all[i].by>>])
        map == walk[Len(all)]
    IN  [e \in DOMAIN map |->
            [name |-> map[e].name, description |-> map[e].description,
             application |-> map[e].application, sources |-> map[e].sources]]

\* combineTemplates: the entries of the Map, keyed by `template.trim()`.
CombineTemplates(experts) ==
    LET all == AllTemplates(experts)
        walk[i \in 0..Len(all)] ==
            IF i = 0 THEN <<>>
            ELSE LET k == Trim(all[i].item)
                     map == walk[i - 1]
                 IN  IF \E e \in DOMAIN map : map[e].key = k
                     THEN [map EXCEPT ![Position(map, k)].sources = AddSource(@, all[i].by)]
                     ELSE Append(map, [key |-> k, sources |-> <<all[i].by>>])
        map == walk[Len(all)]
    IN  [e \in DOMAIN map |-> [template |-> map[e].key, sources |-> map[e].sources]]

\* generateAggregatedSummary: what the sentence is made of.
GenerateAggregatedSummary(experts, topic) ==
    [experts |-> Len(experts),
     names |-> [e \in DOMAIN experts |-> experts[e].username],
     topic |-> topic,
     posts |-> Sum([e \in DOMAIN experts |-> experts[e].posts]),
     insights |-> Sum([e \in DOMAIN experts |-> Len(experts[e].insights)])]

AggregateInsights(experts, topic, left) ==
    [topic |-> topic,
     experts |-> experts,
     combinedInsights |-> AggregationDeduplicateInsights(experts, left),
     combinedMethodologies |-> CombineMethodologies(experts),
     combinedTemplates |-> CombineTemplates(experts),
     summary |-> GenerateAggregatedSummary(experts, topic)]

NoResult == [topic |-> "none"]

\* The expert analyses the orchestrator hands over, in the order of the
\* configuration; nothing keeps a username from being listed twice.
InitAggregation ==
    /\ \E n \in 0..Cardinality(Usernames) :
       \E field \in {"insights", "methodologies", "templates"} :
       \E x \in [1..n -> ExpertAnalyses(field)] : \E t \in Topics :
          call = [fn |-> "aggregateInsights", experts |-> x, topic |-> t,
                  calls |-> 0, left |-> {}, first |-> NoResult,
                  others |-> <<>>, other |-> NoResult, second |-> NoResult]
    /\ an = AnIdle
    /\ bt = BtIdle
    /\ StoreAtRest
    /\ api = ApiIdle

\* The first call.
AggregateFirst ==
    /\ call.fn = "aggregateInsights" /\ call.calls = 0
    /\ call' = [call EXCEPT !.calls = 1,
                             !.first = AggregateInsights(call.experts, call.topic, call.left),
                             !.left = CollectInsights(call.experts, call.left).seen]
    /\ UNCHANGED <<workerVars, an, bt, api>>

\* A call in between, on the same analyses with other weights.
AggregateOtherWeights ==
    /\ call.fn = "aggregateInsights" /\ call.calls = 1 /\ call.other = NoResult
    /\ \E w \in [DOMAIN call.experts -> Weights] :
         LET x == [e \in DOMAIN call.experts |-> [call.experts[e] EXCEPT !.weight = w[e]]]
         IN  /\ x # call.experts
             /\ call' = [call EXCEPT !.others = x,
                                      !.other = AggregateInsights(x, call.topic, call.left),
                                      !.left = CollectInsights(x, call.left).seen]
    /\ UNCHANGED <<workerVars, an, bt, api>>

\* The second call on the analyses of the first.
AggregateSecond ==
    /\ call.fn = "aggregateInsights" /\ call.calls = 1
    /\ call' = [call EXCEPT !.calls = 2,
                             !.second = AggregateInsights(call.experts, call.topic, call.left),
                             !.left = CollectInsights(call.experts, call.left).seen]
    /\ UNCHANGED <<workerVars, an, bt, api>>

NextAggregation == AggregateFirst \/ AggregateOtherWeights \/ AggregateSecond

AggregationSpec == InitAggregation /\ [][NextAggregation]_vars

\* ------------------------------------------------------------- token utils
\* TokenUtils.splitByTokens. A text is a sequence of lines; a line is a
\* `## ` header, a `### ` header or body text, and has a number of characters
\* (its line terminator included).
CharsPerToken == 4

Lines == [kind : {"h2", "h3", "body"}, chars : {5, 8}]

Texts == UNION {[1..n -> Lines] : n \in 0..MaxLines}

\* `text.length`
Length(text) == Sum([i \in DOMAIN text |-> text[i].chars])

\* `Math.ceil(text.length / 4)`
EstimateTokens(text) == (Length(text) + CharsPerToken - 1) \div CharsPerToken

\* The lines a section starts at: the first, and every `## ` header.
Starts(text) == {i \in DOMAIN text : i = 1 \/ text[i].kind = "h2"}

\* The line after the last line of the section starting at i.
SectionEnd(text, i) ==
    IF \E j \in Starts(text) : j > i
    THEN CHOOSE j \in Starts(text) : j > i /\ \A h \in Starts(text) : h > i => j <= h
    ELSE Len(text) + 1

\* The sections in order, the sequence `starts` holding their first lines.
SectionsFrom(text, starts) ==
    [k \in DOMAIN starts |-> SubSeq(text, starts[k], SectionEnd(text, starts[k]) - 1)]

\* The increasing sequence of the elements of a set of numbers.
Ascending(S) ==
    [k \in 1..Cardinality(S) |-> CHOOSE i \in S : Cardinality({j \in S : j < i}) = k - 1]

\* A split that consumes the header line it cuts at.
SplitDroppingHeaders(text) ==
    LET kept == SectionsFrom(text, Ascending(Starts(text)))
    IN  [k \in DOMAIN kept |-> IF kept[k][1].kind = "h2" THEN Tail(kept[k]) ELSE kept[k]]

\* `text.split(/(?=^##\s)/m)`: the text cut before every `## ` header but
\* one that opens the text; the empty text gives one empty section.
SplitSections(text) ==
    IF text = <<>> THEN << <<>> >> ELSE SectionsFrom(text, Ascending(Starts(text)))

\* The loop of splitByTokens over the sections and the push after it.
Pack(sections, maxTokens) ==
    LET walk[i \in 0..Len(sections)] ==
            IF i = 0 THEN [chunks |-> <<>>, currentChunk |-> <<>>, currentTokens |-> 0]
            ELSE LET w == walk[i - 1]
                     sectionTokens == EstimateTokens(sections[i])
                 IN  IF w.currentTokens + sectionTokens > maxTokens /\ w.currentChunk # <<>>
                     THEN [chunks |-> Append(w.chunks, w.currentChunk),
                           currentChunk |-> sections[i],
                           currentTokens |-> sectionTokens]
                     ELSE [chunks |-> w.chunks,
                           currentChunk |-> w.currentChunk \o sections[i],
                           currentTokens |-> w.currentTokens + sectionTokens]
        w == walk[Len(sections)]
    IN  IF w.currentChunk # <<>> THEN Append(w.chunks, w.currentChunk) ELSE w.chunks

SplitByTokens(text, maxTokens) ==
    IF EstimateTokens(text) <= maxTokens THEN <<text>>
    ELSE Pack(SplitSections(text), maxTokens)

\* The contents saveCombinedOutput writes for one file: its parts when its
\* tokens exceed the limit, the file itself otherwise.
SavedContents(text, tokenLimit) ==
    IF EstimateTokens(text) > tokenLimit THEN SplitByTokens(text, tokenLimit) ELSE <<text>>

InitTokens ==
    /\ \E t \in Texts : \E l \in 1..MaxLimit : \E f \in {"splitByTokens", "saveCombinedOutput"} :
          call = [fn |-> f, text |-> t, maxTokens |-> l, done |-> FALSE, result |-> <<>>]
    /\ an = AnIdle
    /\ bt = BtIdle
    /\ StoreAtRest
    /\ api = ApiIdle

SplitText ==
    /\ call.fn = "splitByTokens" /\ ~call.done
    /\ call' = [call EXCEPT !.done = TRUE, !.result = SplitByTokens(call.text, call.maxTokens)]
    /\ UNCHANGED <<workerVars, an, bt, api>>

SaveCombinedOutput ==
    /\ call.fn = "saveCombinedOutput" /\ ~call.done
    /\ call' = [call EXCEPT !.done = TRUE, !.result = SavedContents(call.text, call.maxTokens)]
    /\ UNCHANGED <<workerVars, an, bt, api>>

NextTokens == SplitText \/ SaveCombinedOutput

TokenSpec == InitTokens /\ [][NextTokens]_vars

\* ------------------------------------------------------- external content
\* InsightAnalyzer.enrichExternalContent and scrapeExternalArticles. A URL is
\* its scheme, host, path and query; `upper` tells a host written in upper case.
MaxExternalLinks == 20

MaxUrlsToFetch == 15

Urls ==
    {u \in [scheme : {"https", "mailto"},
            host : [core : {"example.com", "zoom.us", "linkedin.com"}, upper : BOOLEAN],
            path : {"/pricing", "/blog/guide", "/register"},
            query : {"", "?event=1"}] :
        /\ u.host.upper => (u.host.core = "zoom.us" /\ u.path = "/pricing")
        /\ u.query # "" => (u.host.core = "example.com" /\ u.path = "/pricing")
        /\ u.host.core = "linkedin.com" => u.path = "/pricing"
        /\ u.scheme = "mailto" =>
              (u.host.core = "example.com" /\ u.path = "/pricing" /\ u.query = "")}

\* A candidate: a link of a post, or a URL the search service or the model
\* suggested.
Candidates == [url : Urls, from : {"post", "suggestion"}]

\* The needles of the code found in each part of a URL.
Needles(part) ==
    CASE part = "zoom.us" -> {"zoom.us"}
      [] part = "linkedin.com" -> {"linkedin.com"}
      [] part = "/register" -> {"/register"}
      [] part = "/blog/guide" -> {"blog", "guide"}
      [] part = "?event=1" -> {"?event="}
      [] part = "https" -> {"http"}
      [] OTHER -> {}

\* `url.includes(needle)`; a host in upper case holds no lower-case needle.
Includes(u, needle) ==
    \/ needle \in Needles(u.scheme)
    \/ ~u.host.upper /\ needle \in Needles(u.host.core)
    \/ needle \in Needles(u.path)
    \/ needle \in Needles(u.query)

\* `url.toLowerCase()`
LowerUrl(u) == [u EXCEPT !.host = ToLowerCase(u.host)]

EventPlatforms ==
    {"zoom.us", "eventbrite.com", "hopin.com", "brighttalk.com", "on24.com",
     "webex.com", "gotomeeting.com", "demio.com", "livestorm.com"}

EventKeywords ==
    {"/webinar", "/event", "/register", "/registration", "/rsvp", "/live-event",
     "/upcoming-event", "/join-webinar", "/watch-webinar"}

EventParams == {"?register=", "?event=", "&register=", "&event="}

\* The needles looked for in the URL as written.
IsWebinarOrEventUrlCaseSensitive(u) ==
    \E needle \in EventPlatforms \cup EventKeywords \cup EventParams : Includes(u, needle)

IsWebinarOrEventUrl(u) ==
    \E needle \in EventPlatforms \cup EventKeywords \cup EventParams :
        Includes(LowerUrl(u), needle)

\* `list.slice(0, n)`
Take(list, n) == SubSeq(list, 1, Min(n, Len(list)))

\* The links of the posts kept by the loop of enrichExternalContent, without
\* their query, each once, at most 20.
ExternalLinkList(candidates) ==
    LET Kept(c) == /\ c.from = "post"
                   /\ Includes(c.url, "http")
                   /\ ~Includes(c.url, "linkedin.com")
                   /\ ~IsWebinarOrEventUrl(c.url)
        kept == SelectSeq(candidates, Kept)
        links == [i \in DOMAIN kept |-> [kept[i].url EXCEPT !.query = ""]]
    IN  Take(KeepFirst(links, links), MaxExternalLinks)

\* `/blog|insight|playbook|guide/i.test(link)`
LooksLikeBlog(u) ==
    \E needle \in {"blog", "insight", "playbook", "guide"} : Includes(LowerUrl(u), needle)

\* The suggested URLs, then the post links that look like a blog, each once,
\* at most 15.
UrlsToFetch(candidates) ==
    LET Suggested(c) == c.from = "suggestion"
        suggested == SelectSeq(candidates, Suggested)
        urls == [i \in DOMAIN suggested |-> suggested[i].url]
                  \o SelectSeq(ExternalLinkList(candidates), LooksLikeBlog)
    IN  Take(KeepFirst(urls, urls), MaxUrlsToFetch)

InitEnrich ==
    /\ \E n \in 0..MaxLinks : \E c \in [1..n -> Candidates] :
          call = [fn |-> "enrichExternalContent", candidates |-> c, pc |-> "collect",
                  urls |-> <<>>, i |-> 1, fetched |-> {}, articles |-> <<>>]
    /\ an = AnIdle
    /\ bt = BtIdle
    /\ StoreAtRest
    /\ api = ApiIdle

\* enrichExternalContent up to its call of scrapeExternalArticles.
CollectUrls ==
    /\ call.fn = "enrichExternalContent" /\ call.pc = "collect"
    /\ call' = [call EXCEPT !.urls = UrlsToFetch(call.candidates),
                             !.pc = IF UrlsToFetch(call.candidates) = <<>> THEN "done"
                                    ELSE "scrape"]
    /\ UNCHANGED <<workerVars, an, bt, api>>

\* scrapeExternalArticles skips a webinar or event URL.
SkipUrl ==
    /\ call.fn = "enrichExternalContent" /\ call.pc = "scrape"
    /\ call.i <= Len(call.urls)
    /\ IsWebinarOrEventUrl(call.urls[call.i])
    /\ call' = [call EXCEPT !.i = @ + 1]
    /\ UNCHANGED <<workerVars, an, bt, api>>

\* scrapeExternalArticles passes the URL to axios.get; the answer has
\* readable content, has none, or the request fails.
FetchUrl ==
    /\ call.fn = "enrichExternalContent" /\ call.pc = "scrape"
    /\ call.i <= Len(call.urls)
    /\ ~IsWebinarOrEventUrl(call.urls[call.i])
    /\ \E answer \in {"content", "noContent", "error"} :
          call' = [call EXCEPT !.i = @ + 1,
                               !.fetched = @ \cup {call.urls[call.i]},
                               !.articles = IF answer = "content"
                                            THEN Append(@, call.urls[call.i]) ELSE @]
    /\ UNCHANGED <<workerVars, an, bt, api>>

\* scrapeExternalArticles returns the articles.
ScrapeReturns ==
    /\ call.fn = "enrichExternalContent" /\ call.pc = "scrape"
    /\ call.i > Len(call.urls)
    /\ call' = [call EXCEPT !.pc = "done"]
    /\ UNCHANGED <<workerVars, an, bt, api>>

NextEnrich == CollectUrls \/ SkipUrl \/ FetchUrl \/ ScrapeReturns

EnrichSpec == InitEnrich /\ [][NextEnrich]_vars

\* --------------------------------------------------------------- artifacts
\* storeArtifact: the bucket (path -> content) and the table run_artifacts,
\* whose only key is the generated id, kept as the sequence of its rows.
ArtifactRuns == {"r1"}

ArtifactTypes == {"instructions", "expert-a"}

Contents == {"v1", "v2"}

\* `${runId}/${artifactType}.md`
StoragePath(runId, artifactType) == <<runId, artifactType>>

\* `crypto.createHash('sha256').update(content).digest('hex')`
Sha256(content) == <<"sha256", content>>

\* `Buffer.byteLength(content, 'utf-8')`
ByteLength(content) == IF content = "v1" THEN 10 ELSE 12

NoObject == "none"

InitArtifacts ==
    /\ call = [fn |-> "storeArtifact",
               bucket |-> [p \in ArtifactRuns \X ArtifactTypes |-> NoObject],
               run_artifacts |-> <<>>, calls |-> 0, thrown |-> 0]
    /\ an = AnIdle
    /\ bt = BtIdle
    /\ StoreAtRest
    /\ api = ApiIdle

\* One call of storeArtifact: the upload fails and throws; or the object is
\* written over what the path held and the insert fails and throws; or both
\* succeed.
StoreArtifact(runId, artifactType, content) ==
    /\ call.fn = "storeArtifact" /\ call.calls < MaxStores
    /\ LET path == StoragePath(runId, artifactType)
           uploaded == [call.bucket EXCEPT ![path] = content]
           row == [run_id |-> runId, artifact_type |-> artifactType,
                   storage_path |-> path, content_sha256 |-> Sha256(content),
                   bytes |-> ByteLength(content)]
       IN  \/ call' = [call EXCEPT !.calls = @ + 1, !.thrown = @ + 1]
           \/ call' = [call EXCEPT !.calls = @ + 1, !.thrown = @ + 1, !.bucket = uploaded]
           \/ call' = [call EXCEPT !.calls = @ + 1, !.bucket = uploaded,
                                    !.run_artifacts = Append(@, row)]
    /\ UNCHANGED <<workerVars, an, bt, api>>

NextArtifacts ==
    \E r \in ArtifactRuns, t \in ArtifactTypes, c \in Contents : StoreArtifact(r, t, c)

ArtifactSpec == InitArtifacts /\ [][NextArtifacts]_vars

\* --------------------------------------------------------------- POST /runs
\* The handler of POST /runs for one user and month, several requests at a
\* time, next to one incrementTokenUsage of the worker. api.row is the user's
\* row of usage_counters, api.created the runs inserted for the user,
\* api.counted the calls of increment_run_usage that were applied.
RunLimit == 5

Requests == {"q1", "q2"}

NewRequest == [pc |-> "start", status |-> 0, thrown |-> "none", remaining |-> 0]

\* `data?.runs_used ?? 0`
RunsUsed(row) == IF row.exists THEN row.runs_used ELSE 0

\* `data?.tokens_used ?? 0`
TokensUsed(row) == IF row.exists THEN row.tokens_used ELSE 0

\* The limit reached only once it is exceeded.
LimitExceeded(runsUsed) == runsUsed > RunLimit

\* `runsUsed >= config.runLimit`
LimitReached(runsUsed) == runsUsed >= RunLimit

\* increment_run_usage: INSERT ... ON CONFLICT DO UPDATE SET runs_used =
\* runs_used + 1, one statement.
IncrementedRow(row) ==
    IF row.exists THEN [row EXCEPT !.runs_used = @ + 1]
    ELSE [exists |-> TRUE, runs_used |-> 1, tokens_used |-> 0]

InitApi ==
    /\ \E row \in {NoRow} \cup {[exists |-> TRUE, runs_used |-> k, tokens_used |-> 0] :
                                  k \in 0..RunLimit} :
          api = [pc |-> "serving", row |-> row, start |-> RunsUsed(row),
                 created |-> RunsUsed(row), counted |-> 0,
                 req |-> [q \in Requests |-> NewRequest],
                 upd |-> [pc |-> "idle", runsUsed |-> 0, tokensUsed |-> 0]]
    /\ an = AnIdle
    /\ bt = BtIdle
    /\ call = NoCall
    /\ StoreAtRest

\* ensureUserRecord and checkRunLimit: the user upsert or the counter read
\* fails (500); the limit is reached (429); or the remaining runs are returned.
CheckRunLimit(q) ==
    /\ api.pc = "serving" /\ api.req[q].pc = "start"
    /\ \/ api' = [api EXCEPT !.req[q] = [@ EXCEPT !.pc = "done", !.status = 500,
                                                   !.thrown = "error"]]
       \/ /\ LimitReached(RunsUsed(api.row))
          /\ api' = [api EXCEPT !.req[q] = [@ EXCEPT !.pc = "done", !.status = 429,
                                                      !.thrown = "Run limit reached"]]
       \/ /\ ~LimitReached(RunsUsed(api.row))
          /\ api' = [api EXCEPT !.req[q] = [@ EXCEPT !.pc = "checked",
                                                      !.remaining = RunLimit - RunsUsed(api.row)]]
    /\ UNCHANGED <<workerVars, an, bt, call>>

\* validateRunConfig and createRun: the body is rejected (400); the insert
\* fails (500); the run is inserted and runQueue.add throws (500); or the run
\* is inserted and its job enqueued.
CreateRun(q) ==
    /\ api.pc = "serving" /\ api.req[q].pc = "checked"
    /\ \/ api' = [api EXCEPT !.req[q] = [@ EXCEPT !.pc = "done", !.status = 400,
                                                   !.thrown = "invalid"]]
       \/ api' = [api EXCEPT !.req[q] = [@ EXCEPT !.pc = "done", !.status = 500,
                                                   !.thrown = "error"]]
       \/ api' = [api EXCEPT !.created = @ + 1,
                              !.req[q] = [@ EXCEPT !.pc = "done", !.status = 500,
                                                   !.thrown = "error"]]
       \/ api' = [api EXCEPT !.created = @ + 1, !.req[q].pc = "created"]
    /\ UNCHANGED <<workerVars, an, bt, call>>

\* incrementRunUsage and the answer: the rpc fails (500) or the counter is
\* incremented (201).
IncrementRunUsage(q) ==
    /\ api.pc = "serving" /\ api.req[q].pc = "created"
    /\ \/ api' = [api EXCEPT !.req[q] = [@ EXCEPT !.pc = "done", !.status = 500,
                                                   !.thrown = "error"]]
       \/ api' = [api EXCEPT !.row = IncrementedRow(@), !.counted = @ + 1,
                              !.req[q] = [@ EXCEPT !.pc = "done", !.status = 201]]
    /\ UNCHANGED <<workerVars, an, bt, call>>

\* incrementTokenUsage of the worker, its select: the read fails and it
\* throws, or it keeps runs_used and tokens_used of the row.
ReadUsage ==
    /\ api.pc = "serving" /\ api.upd.pc = "idle"
    /\ \/ api' = [api EXCEPT !.upd.pc = "done"]
       \/ api' = [api EXCEPT !.upd = [pc |-> "read", runsUsed |-> RunsUsed(api.row),
                                       tokensUsed |-> TokensUsed(api.row)]]
    /\ UNCHANGED <<workerVars, an, bt, call>>

\* incrementTokenUsage of the worker, its upsert of the whole row.
UpsertUsage ==
    /\ api.pc = "serving" /\ api.upd.pc = "read"
    /\ \/ api' = [api EXCEPT !.upd.pc = "done"]
       \/ \E tokens \in 0..MaxTokens :
             api' = [api EXCEPT !.upd.pc = "done",
                                !.row = [exists |-> TRUE, runs_used |-> api.upd.runsUsed,
                                         tokens_used |-> api.upd.tokensUsed + tokens]]
    /\ UNCHANGED <<workerVars, an, bt, call>>

NextApi ==
    \/ \E q \in Requests : CheckRunLimit(q)
    \/ \E q \in Requests : CreateRun(q)
    \/ \E q \in Requests : IncrementRunUsage(q)
    \/ ReadUsage
    \/ UpsertUsage

ApiSpec == InitApi /\ [][NextApi]_vars

\* ------------------------------------------------------------------ claims
Done(w) == wk[w].pc = "done"

\* The run the job of worker w names, when its row exists.
Known(w) == wk[w].job.run \in DOMAIN runs

\* No store error and no collaborator exception has happened so far.
NoFaultYet == faults = IF DOMAIN runs = Runs THEN MaxRaceFaults ELSE MaxFaults

\* C1: once a run's status is completed or failed, no later step changes it.
C1_TerminalStatusKept ==
    [][\A r \in DOMAIN runs :
          runs[r].status \in Terminal => runs'[r].status = runs[r].status]_vars

\* C2: at every moment every user has at most one linked_sessions row with
\* is_active = true, whatever the interleaving of the saveSession calls (here:
\* in behaviours where every store call succeeds).
C2_AtMostOneActiveSession ==
    NoFaultYet => \A u \in Users : sessions[u] <= 1

\* C3: whenever no incrementTokenUsage call for a user is between its select
\* and its upsert, tokens_used is the initial value (0) plus the sum of the
\* increments applied.
C3_NoIncrementLost ==
    \A u \in Users :
        (\A w \in Workers : ~(wk[w].pc = "usageUpsert" /\ wk[w].user = u))
            => usage[u].tokens_used = added[u]

Wrote(w, st) == \E i \in DOMAIN wk[w].wrote : wk[w].wrote[i] = st

WriteCount(w, st) == Cardinality({i \in DOMAIN wk[w].wrote : wk[w].wrote[i] = st})

C5_ExceptionLeavesFailed ==
    \A w \in Workers :
        (Done(w) /\ Known(w) /\ (wk[w].thrown # "none" \/ wk[w].err # "none"))
            => runs[wk[w].job.run].status = "failed"

C7_CloseExactlyOnce ==
    \A w \in Workers :
        /\ wk[w].closeCalls <= 1
        /\ (Done(w) /\ wk[w].scraperMade) => wk[w].closeCalls = 1

\* The write of the failed status itself threw, and close() was called.
C7_Witness ==
    \E w \in Workers :
        /\ Done(w) /\ wk[w].scraperMade /\ wk[w].closeCalls = 1
        /\ wk[w].failedUpdateCalls = 1 /\ ~Wrote(w, "failed")
        /\ wk[w].thrown = "store"

\* C8: when an invocation has ended and its run is completed or failed,
\* run_events holds a completed or status_failed row of that run.
C8_TerminalHasEvent ==
    \A w \in Workers :
        (Done(w) /\ Known(w) /\ runs[wk[w].job.run].status \in Terminal)
            => events[wk[w].job.run]["completed"]
                 + events[wk[w].job.run]["status_failed"] > 0

\* C9: an invocation writes status running only if getActiveSession returned
\* a session, or captureCookies returned a non-empty list that saveSession
\* inserted as an active row before the scraper was constructed.
C9_RunningNeedsSession ==
    \A w \in Workers :
        (wk[w].pc = "runningInsert" \/ Wrote(w, "running"))
            => \/ wk[w].hadSession
               \/ wk[w].cap = "nonempty" /\ wk[w].savedCapture

\* An invocation without a stored session captured cookies, saved them and
\* wrote running.
C9_Witness ==
    \E w \in Workers :
        /\ Wrote(w, "running") /\ ~wk[w].hadSession
        /\ wk[w].cap = "nonempty" /\ wk[w].savedCapture

\* C10: an invocation in which captureCookies threw adds exactly one follow-up
\* job and returns: it writes no status, inserts no failed event and no
\* exception reaches the queue.
C10_CaptureErrorRequeues ==
    \A w \in Workers :
        (Done(w) /\ wk[w].cap = "threw")
            => /\ wk[w].followUps = 1
               /\ wk[w].thrown = "none"
               /\ wk[w].wrote = <<>>
               /\ wk[w].failedUpdateCalls = 0 /\ wk[w].failedInsertCalls = 0

\* captureCookies threw and the invocation has ended with its follow-up queued.
C10_Witness ==
    \E w \in Workers :
        /\ Done(w) /\ wk[w].cap = "threw"
        /\ \E j \in queue : j.run = wk[w].job.run /\ j.state = "delayed"

\* The step on which the invocation of worker w returns or throws.
Ends(w) == wk[w].pc # "done" /\ wk'[w].pc = "done"

\* The invocation of worker w found no active session and no needs_login
\* event, and called ensureLoginSession (in the state after the step).
Provisioned(w) == wk'[w].provisioned > 0 \/ wk'[w].thrown = "provision"

Order == <<"running", "scrape", "aggregate", "perExpert", "bundle", "store",
           "usage", "completed">>

\* C12: the steps an invocation has finished are, in order, an initial part
\* of: running written, scrape, aggregate analysis, per-expert analyses,
\* bundle, artifacts stored, usage incremented, completed written; a step is
\* started only when all the steps before it have finished, and completed
\* is written only when every earlier step finished and nothing threw.
C12_StepsInOrder ==
    \A w \in Workers :
        /\ wk[w].did = SubSeq(Order, 1, Len(wk[w].did))
        /\ wk[w].pc = "pipeline"
              => /\ Len(wk[w].did) = wk[w].step
                 /\ Order[wk[w].step + 1] = Steps[wk[w].step]
        /\ wk[w].pc \in {"usageSelect", "usageUpsert"} => Len(wk[w].did) = 6
        /\ wk[w].pc = "completedUpdate" => Len(wk[w].did) = 7
        /\ Wrote(w, "completed")
              => wk[w].did = Order /\ wk[w].err = "none" /\ wk[w].threwAt = "none"
        /\ wk[w].err # "none" => ~Wrote(w, "completed")

\* An invocation went through every step and wrote completed.
C12_Witness ==
    \E w \in Workers : Done(w) /\ wk[w].did = Order /\ Wrote(w, "completed")

\* The step on which the queue settles the job of worker w.
Settles(w) == wk[w].pc = "done" /\ wk'[w].pc = "idle"

\* Every job is within its attempts, and no job has more than three.
AttemptsBounded ==
    /\ \A j \in queue : j.attempts <= 3 /\ j.made < j.attempts
    /\ \A w \in Workers :
          wk[w].pc # "idle" => wk[w].job.attempts <= 3 /\ wk[w].job.made < wk[w].job.attempts

C14_DeadSessionReplaced ==
    \A r \in Runs :
        (expired[r] /\ sessions[UserOf[r]] = 0)
            ~> (events[r]["needs_login"] >= 2 \/ faults < MaxFaults)

\* C15: a run whose needs_login_url is not null has status needs_login; once
\* the run is running, completed or failed the URL is empty.
C15_UrlOnlyWhileNeedsLogin ==
    \A r \in DOMAIN runs :
        runs[r].needs_login_url => runs[r].status = "needs_login"

\* batchAnalyzePosts has returned or thrown.
AnEnded == an.pc \in {"returned", "threw"}

\* The posts handed to batchAnalyzePosts, as a set of indices.
Passed == {an.passed[x] : x \in DOMAIN an.passed}

\* C16: an extraction request is issued for a post only if its score is
\* strictly greater than 0.6; when batchAnalyzePosts returns and no post
\* scored above 0.6, no extraction request was issued and the result has no
\* insights and no templates.
C16_ExtractionOnlyAboveThreshold ==
    /\ \A k \in DOMAIN an.posts :
          Len(an.reqs[k]) > 0 => k \in Passed /\ an.scores[k] > Threshold
    /\ (AnEnded /\ \A k \in Passed : an.scores[k] <= Threshold)
          => /\ an.pc = "returned"
             /\ \A k \in DOMAIN an.posts : an.reqs[k] = <<>>
             /\ an.out.insights = {} /\ an.out.templates = {}

\* Every post was scored 0.3 and batchAnalyzePosts returned without pass 2.
C16_Witness ==
    /\ an.pc = "returned" /\ Len(an.passed) = 2
    /\ \A k \in Passed : an.scoreRes[k] = [kind |-> "number", v |-> 3]
    /\ \A k \in DOMAIN an.posts : an.reqs[k] = <<>>

\* C17 as stated: whenever the first extraction request for a post fails,
\* exactly one more request is made for it, without the images; no post gets
\* more than two requests.
C17_RetryAfterAnyFailure ==
    /\ \A k \in DOMAIN an.posts : Len(an.reqs[k]) <= 2
    /\ AnEnded
          => \A k \in DOMAIN an.posts :
                an.firstRes[k] \in {"imageError", "error"}
                    => Len(an.reqs[k]) = 2 /\ an.reqs[k][2] = "textOnly"

\* C17 amended: a post gets a second extraction request exactly when its
\* first request had images attached and failed with an error whose message
\* contains 'image'; the second request carries no images; after any other
\* failure no further request is made and the post yields the empty result;
\* no post gets more than two requests.
C17_RetryOnlyAfterImageError ==
    /\ \A k \in DOMAIN an.posts : Len(an.reqs[k]) <= 2
    /\ AnEnded
          => \A k \in DOMAIN an.posts :
                /\ Len(an.reqs[k]) = 2
                      <=> (an.firstRes[k] = "imageError" /\ an.posts[k].img)
                /\ Len(an.reqs[k]) = 2 => an.reqs[k] = <<"withImages", "textOnly">>
                /\ (an.firstRes[k] \in {"imageError", "error"} /\ Len(an.reqs[k]) = 1)
                      => an.result[k] = "empty"

\* A post with images failed with an image error and was asked once more
\* without them; another post failed otherwise and was not.
C17_Witness ==
    /\ AnEnded
    /\ \E k \in DOMAIN an.posts :
          an.firstRes[k] = "imageError" /\ an.reqs[k] = <<"withImages", "textOnly">>
    /\ \E k \in DOMAIN an.posts :
          an.firstRes[k] = "error" /\ Len(an.reqs[k]) = 1

\* C18: batchAnalyzePosts never throws; a post whose extraction failed, or
\* whose answer was malformed or violated the schema, contributes nothing and
\* the insights of every other post are returned.
C18_BatchNeverThrows ==
    /\ an.pc # "threw"
    /\ an.pc = "returned"
          => an.out.insights = {k \in DOMAIN an.posts : an.result[k] = "insights"}

\* C19: when analyzeInsights has ended in the AI path, every post it was
\* given has received exactly one scoring request.
C19_EveryPostScoredOnce ==
    AnEnded => \A k \in DOMAIN an.posts : an.scoreReqs[k] = 1

\* C20: a post whose scoring request threw has the score 0.5; the scoring of
\* the other posts goes on, so that every post handed to batchAnalyzePosts is
\* scored once, and nothing is raised during the scoring pass.
C20_ScoringErrorIsNeutral ==
    /\ \A k \in DOMAIN an.posts :
          an.scoreRes[k].kind = "threw" => an.scores[k] = ScoreOnError
    /\ an.pc = "score"
          => \A x \in DOMAIN an.passed :
                an.scoreReqs[an.passed[x]] = IF x < an.i THEN 1 ELSE 0
    /\ an.pc \notin {"none", "filter", "score"}
          => \A k \in Passed : an.scoreReqs[k] = 1
    /\ an.pc = "threw" => an.relevant # <<>> /\ an.i > Len(an.relevant)

\* The scoring request of the first post threw, the post got 0.5 and the
\* second post was scored from its answer.
C20_Witness ==
    /\ an.pc \notin {"none", "filter", "score"} /\ Len(an.passed) = 2
    /\ an.scoreRes[an.passed[1]].kind = "threw" /\ an.scores[an.passed[1]] = 5
    /\ an.scoreRes[an.passed[2]].kind = "number" /\ an.scoreReqs[an.passed[2]] = 1

\* C21: at most batchSize (5) LLM requests of one batchAnalyzePosts call are
\* in flight; requests are started only when none is in flight, so a batch is
\* fully awaited before the next one starts; and an extraction request is in
\* flight only when every post has been scored.
C21_BatchesBounded ==
    [][/\ Cardinality(bt.flight) <= 5
       /\ Cardinality(bt'.flight) <= 5
       /\ ~(bt'.flight \subseteq bt.flight) => bt.flight = {}
       /\ bt'.pc \in {"extractLaunch", "extractWait"}
             => bt'.scored = {bt.posts[x] : x \in DOMAIN bt.posts}]_vars

\* A full batch of five extraction requests is in flight while a sixth
\* relevant post waits for the next batch.
C21_Witness ==
    /\ bt.pc = "extractWait" /\ Cardinality(bt.flight) = 5
    /\ Len(bt.relevant) > 5 /\ bt.i = 0

\* C22: the confidence of every insight mapped by parseAnalysisResponse lies
\* in [0.0, 1.0], whatever confidence the answer carries.
C22_AiConfidenceInRange ==
    (call.fn = "parseAnalysisResponse" /\ call.done)
        => call.result >= 0 /\ call.result <= 10

\* C23: every confidence computed by calculateConfidence lies in [0.1, 1.0].
C23_KeywordConfidenceInRange ==
    (call.fn = "calculateConfidence" /\ call.done)
        => call.result >= 1 /\ call.result <= 10

\* Four keyword hits or more and an engagement above 500 give 0.8 + 0.1 + 0.1,
\* the ceiling 1.0.
C23_Witness ==
    /\ call.fn = "calculateConfidence" /\ call.done
    /\ call.hits >= 4 /\ call.likes + call.comments + call.shares > 500
    /\ call.result = 10

\* C24: a per-analysis deduplicator (insights, strings, methodologies) applied
\* to its own output returns that output: same elements, same order.
C24_DedupIdempotent ==
    call.applied = 2 => call.twice = call.once

\* A list with a repeated element was deduplicated and then deduplicated again.
C24_Witness ==
    /\ call.applied = 2 /\ call.fn = "deduplicateStrings"
    /\ Len(call.arg) = 3 /\ Len(call.once) = 2 /\ call.twice = call.once

\* C25: the strings a deduplicateStrings returns (templates, actionable
\* items) are pairwise different after trimming.
C25_NoEqualAfterTrim ==
    (call.fn \in {"deduplicateStrings", "deduplicateStringsPlain"} /\ call.applied >= 1)
        => \A i, j \in DOMAIN call.once :
              i # j => Trim(call.once[i]) # Trim(call.once[j])

\* The usernames of the experts that reported a methodology of key k, each
\* once, in the order of their first report.
Reporters(experts, k) ==
    LET all == AllMethodologies(experts)
        Hit(r) == ToLowerCase(r.item.name) = k
        by == [i \in DOMAIN SelectSeq(all, Hit) |-> SelectSeq(all, Hit)[i].by]
    IN  KeepFirst(by, by)

\* The first methodology of key k, in expert order.
FirstReport(experts, k) ==
    LET all == AllMethodologies(experts)
    IN  all[CHOOSE i \in DOMAIN all :
              /\ ToLowerCase(all[i].item.name) = k
              /\ \A j \in 1..(i - 1) : ToLowerCase(all[j].item.name) # k].item

\* C26: combinedMethodologies has exactly one entry per lower-cased
\* methodology name; the entry carries the description and application of the
\* first report in expert order, and its sources are the experts that
\* reported the name, in the order of their first report, each once.
C26_OneEntryPerName ==
    call.fn = "aggregateInsights" /\ call.calls >= 1 =>
        LET all == AllMethodologies(call.experts)
            out == call.first.combinedMethodologies
            keys == {ToLowerCase(all[i].item.name) : i \in DOMAIN all}
        IN  /\ Len(out) = Cardinality(keys)
            /\ \A k \in keys :
                 \E e \in DOMAIN out :
                    /\ ToLowerCase(out[e].name) = k
                    /\ \A f \in DOMAIN out : ToLowerCase(out[f].name) = k => f = e
                    /\ out[e].description = FirstReport(call.experts, k).description
                    /\ out[e].application = FirstReport(call.experts, k).application
                    /\ out[e].sources = Reporters(call.experts, k)

\* Expert A reports "SMYKM" and then expert B reports "smykm" with another
\* description: one entry, A's description, sources A then B.
C26_Witness ==
    /\ call.fn = "aggregateInsights" /\ call.calls >= 1
    /\ Len(call.experts) = 2
    /\ call.experts[1].username = "A" /\ call.experts[2].username = "B"
    /\ \E i \in DOMAIN call.experts[1].methodologies :
       \E j \in DOMAIN call.experts[2].methodologies :
          /\ call.experts[1].methodologies[i].name = [core |-> "smykm", upper |-> TRUE]
          /\ call.experts[2].methodologies[j].name = [core |-> "smykm", upper |-> FALSE]
    /\ \E e \in DOMAIN call.first.combinedMethodologies :
          /\ call.first.combinedMethodologies[e].description = "d1"
          /\ call.first.combinedMethodologies[e].sources = <<"A", "B">>

\* C27: combinedInsights holds exactly one insight per lower-cased, trimmed
\* insight text of the experts' insights, the first in expert-then-list order,
\* and is ordered by non-increasing confidence.
C27_FirstPerTextByConfidence ==
    call.fn = "aggregateInsights" /\ call.calls >= 1 =>
        LET all == AllInsights(call.experts)
            out == call.first.combinedInsights
            texts == {Normalized(all[i]) : i \in DOMAIN all}
        IN  /\ Len(out) = Cardinality(texts)
            /\ \A t \in texts :
                 \E e \in DOMAIN out :
                    /\ Normalized(out[e]) = t
                    /\ \E i \in DOMAIN all :
                          /\ out[e] = all[i]
                          /\ \A j \in 1..(i - 1) : Normalized(all[j]) # t
            /\ \A e, f \in DOMAIN out : e < f => out[e].confidence >= out[f].confidence

\* A text reported twice, in another case and with white space, is kept once,
\* and an insight of higher confidence collected later comes first.
C27_Witness ==
    /\ call.fn = "aggregateInsights" /\ call.calls >= 1
    /\ Len(AllInsights(call.experts)) = 3
    /\ Len(call.first.combinedInsights) = 2
    /\ AllInsights(call.experts)[1].confidence < AllInsights(call.experts)[3].confidence
    /\ call.first.combinedInsights[1] = AllInsights(call.experts)[3]
    /\ Normalized(AllInsights(call.experts)[1]) = Normalized(AllInsights(call.experts)[2])
    /\ AllInsights(call.experts)[1] # AllInsights(call.experts)[2]

\* C28 (as stated): two insights of the same normalized text and different
\* categories are both kept in combinedInsights.
C28_SameTextOtherCategoryKept ==
    call.fn = "aggregateInsights" /\ call.calls >= 1 =>
        LET all == AllInsights(call.experts)
            out == call.first.combinedInsights
        IN  \A i, j \in DOMAIN all :
              (Normalized(all[i]) = Normalized(all[j]) /\ all[i].category # all[j].category)
                 => \E e, f \in DOMAIN out :
                       /\ Normalized(out[e]) = Normalized(all[i])
                       /\ out[e].category = all[i].category
                       /\ Normalized(out[f]) = Normalized(all[j])
                       /\ out[f].category = all[j].category

\* C28 (amended): aggregation deduplicates insights on the normalized text
\* alone: two insights of the same normalized text and different categories
\* are never both in combinedInsights.
C28_SameTextOneCategoryKept ==
    call.fn = "aggregateInsights" /\ call.calls >= 1 =>
        LET out == call.first.combinedInsights
        IN  \A e, f \in DOMAIN out :
              out[e].category # out[f].category => Normalized(out[e]) # Normalized(out[f])

\* The same text under TACTICS and then under STRATEGY: only the TACTICS
\* insight is in combinedInsights.
C28_Witness ==
    /\ call.fn = "aggregateInsights" /\ call.calls >= 1
    /\ Len(AllInsights(call.experts)) >= 2
    /\ AllInsights(call.experts)[1].category = "TACTICS"
    /\ AllInsights(call.experts)[2].category = "STRATEGY"
    /\ Normalized(AllInsights(call.experts)[1]) = Normalized(AllInsights(call.experts)[2])
    /\ \A e \in DOMAIN call.first.combinedInsights :
          Normalized(call.first.combinedInsights[e]) = Normalized(AllInsights(call.experts)[1])
             => call.first.combinedInsights[e].category = "TACTICS"

\* C29: two calls of aggregateInsights on the same analyses and configuration
\* return the same result (elements, order, source lists), whatever call was
\* made before.
C29_SameInputSameResult ==
    call.fn = "aggregateInsights" /\ call.calls = 2 => call.second = call.first

\* Two calls on analyses with insights to deduplicate and another call in
\* between.
C29_Witness ==
    /\ call.fn = "aggregateInsights" /\ call.calls = 2
    /\ call.other # NoResult
    /\ Len(call.second.combinedInsights) = 2
    /\ Len(AllInsights(call.experts)) = 4

Split == call.fn \in {"splitByTokens", "saveCombinedOutput"} /\ call.done

\* C31: the chunks splitByTokens returns, concatenated in order, are the text:
\* nothing dropped, duplicated or reordered.
C31_ChunksConcatToText ==
    Split => Concat(call.result) = call.text

\* A text over the limit was cut into three chunks.
C31_Witness ==
    /\ Split /\ Len(call.result) = 3
    /\ EstimateTokens(call.text) > call.maxTokens
    /\ Concat(call.result) = call.text

\* The sections of a chunk: the chunk cut at its `## ` headers.
SectionTokens(chunk) ==
    Sum([k \in DOMAIN SplitSections(chunk) |-> EstimateTokens(SplitSections(chunk)[k])])

\* C32: a text over the limit is cut only at `## ` section starts and packed
\* greedily: every chunk is the longest run of consecutive sections whose
\* summed estimated tokens do not exceed maxTokens.
C32_GreedyPacking ==
    (Split /\ EstimateTokens(call.text) > call.maxTokens) =>
        \A c \in DOMAIN call.result :
            /\ c > 1 => call.result[c][1].kind = "h2"
            /\ SectionTokens(call.result[c]) <= call.maxTokens
            /\ c < Len(call.result) =>
                  SectionTokens(call.result[c])
                     + EstimateTokens(SplitSections(call.result[c + 1])[1]) > call.maxTokens

\* C33: every chunk splitByTokens returns, and so every part
\* saveCombinedOutput writes, has an estimated token count of at most the
\* limit.
C33_ChunksWithinLimit ==
    (Split /\ EstimateTokens(call.text) > call.maxTokens) =>
        \A c \in DOMAIN call.result : EstimateTokens(call.result[c]) <= call.maxTokens

\* The URL has `/register` in it.
HasRegister(u) == u.path = "/register"

\* The host of the URL is a known event platform, in whatever case.
OnEventPlatform(u) == u.host.core \in EventPlatforms

\* C34: no URL that contains `/register` or belongs to a known event-platform
\* domain is passed to the HTTP article fetch.
C34_NoEventUrlFetched ==
    call.fn = "enrichExternalContent" =>
        \A u \in call.fetched : ~HasRegister(u) /\ ~OnEventPlatform(u)

\* Of two suggested URLs the one on an event platform, its host in upper
\* case, was skipped and the other was fetched.
C34_Witness ==
    /\ call.fn = "enrichExternalContent" /\ call.pc = "done"
    /\ Len(call.urls) = 2
    /\ \E i \in DOMAIN call.urls :
          call.urls[i].host.upper /\ OnEventPlatform(call.urls[i])
    /\ Cardinality(call.fetched) = 1

\* The integrity records of a run and artifact type.
RecordsOf(r, t) ==
    LET Of(row) == row.run_id = r /\ row.artifact_type = t
    IN  SelectSeq(call.run_artifacts, Of)

\* C35: storing an artifact is idempotent per (runId, artifactType): however
\* often storeArtifact ran for a run and type, there is one object at the
\* stable path and at most one integrity record, which holds the SHA-256 and
\* the byte size of that object.
C35_StoreIdempotent ==
    call.fn = "storeArtifact" =>
        \A r \in ArtifactRuns, t \in ArtifactTypes :
            /\ Len(RecordsOf(r, t)) <= 1
            /\ \A i \in DOMAIN RecordsOf(r, t) :
                  /\ RecordsOf(r, t)[i].content_sha256 = Sha256(call.bucket[StoragePath(r, t)])
                  /\ RecordsOf(r, t)[i].bytes = ByteLength(call.bucket[StoragePath(r, t)])

\* C36: the runs created through POST /runs for a user and month never exceed
\* the run limit, whatever the interleaving of the user's requests.
C36_CreatedWithinLimit ==
    api.pc = "serving" => api.created <= RunLimit

\* checkRunLimit of request q read the counter and returned or threw.
Checked(q) ==
    /\ api.pc = "serving" /\ api.req[q].pc = "start"
    /\ api'.req[q].pc # "start" /\ api'.req[q].thrown # "error"

\* C37: checkRunLimit throws 'Run limit reached' exactly when runs_used of
\* the current month is at least the run limit, and returns the limit minus
\* runs_used otherwise; a missing row counts as 0.
C37_CheckRunLimit ==
    [][\A q \in Requests :
          Checked(q) =>
             LET used == IF api.row.exists THEN api.row.runs_used ELSE 0
             IN  /\ api'.req[q].thrown = "Run limit reached" <=> used >= RunLimit
                 /\ used < RunLimit =>
                       (api'.req[q].pc = "checked" /\ api'.req[q].remaining = RunLimit - used)]_vars

\* One request was told that one run remains and created it; the other was
\* then refused at the limit.
C37_Witness ==
    /\ api.pc = "serving"
    /\ api.req["q1"].thrown = "Run limit reached"
    /\ api.req["q2"].status = 201 /\ api.req["q2"].remaining = 1

\* C38: runs_used never loses an increment: with the worker's token update
\* interleaved, it is the number of runs counted so far.
C38_RunsUsedIsCounted ==
    api.pc = "serving" => RunsUsed(api.row) = api.start + api.counted

\* A job of run r is waiting or delayed in the queue, or a worker holds it.
HasJob(r) ==
    \/ \E j \in queue : j.run = r
    \/ \E w \in Workers : wk[w].pc # "idle" /\ wk[w].job.run = r

\* C39: a run in a non-terminal status (queued, needs_login, running) has a
\* job waiting, delayed or active in the queue.
C39_NonTerminalHasJob ==
    \A r \in DOMAIN runs : runs[r].status \notin Terminal => HasJob(r)

\* captureCookiesFromSession has returned cookies to an invocation for run r.
LoginCompleted(r) ==
    \E w \in Workers : wk[w].pc # "idle" /\ wk[w].job.run = r /\ wk[w].cap = "nonempty"

\* C40: with a queue that delivers every job and calls that all return, once
\* the cookie capture has returned a non-empty set the run eventually is
\* completed or failed.
C40_LoginCompletedRunEnds ==
    \A r \in Runs :
        (r \in DOMAIN runs /\ LoginCompleted(r))
            ~> (r \in DOMAIN runs /\ runs[r].status \in Terminal)

====
